---- MODULE Spec2Model ----
(***************************************************************************)
(* A model of resumidor: the section extraction pipeline that turns an     *)
(* EPUB or a PDF into an ordered sequence of titled sections, and the      *)
(* batch driver that hands them to the summarizer.                         *)
(*                                                                         *)
(* Text is modelled at two levels.  Titles are sequences of one-character  *)
(* strings, so that strip(), lower(), substring tests and the regular      *)
(* expressions of the code are computed character by character.  Body      *)
(* text is modelled by its number of whitespace-separated words and by     *)
(* the pages or DOM nodes it is made of.                                   *)
(***************************************************************************)
EXTENDS Integers, Sequences, FiniteSets, TLC

VARIABLES
    mode,        \* which part of the program this behaviour exercises
    pc,          \* position of the running code
    \* ---- the PDF document (what pypdf and pdfplumber read from the file)
    numPages,    \* len(reader.pages)
    outline,     \* reader.outline in document order: <<[depth, page, title]>>
    pageWords,   \* page index -> number of words of page.extract_text()
    textKind,    \* "plain", "html" or "script": what the page texts look like
    fontHead,    \* pages on which the font heuristic accepts a heading line
    \* ---- PdfExtractor
    chapters,    \* PdfExtractor._chapters: <<[title, page]>>
    sub_map,     \* PdfExtractor._sub_map: chapter start page -> <<[title, page]>>
    reliable,    \* value returned by _outline_is_reliable (FALSE before the call)
    score,       \* local `score` of _outline_is_reliable (0 while not computed)
    sections,    \* PdfExtractor._sections: <<[title, pages, level]>>
    full_text,   \* PdfExtractor._full_text
    \* ---- one run of sections()
    si,          \* position of the generator in its list of candidates
    yielded,     \* local `yielded` of ExtractorBase.sections
    out,         \* the entries yielded so far, in order
    \* ---- flatten_toc
    toc,         \* the argument: book.toc
    flat,        \* the list flatten_toc returned
    \* ---- _section_md
    dom,         \* the parsed resource: nodes in document order, with depth
    frag,        \* the anchor fragment
    nxt,         \* the next-boundary fragment (<<>> stands for None)
    content,     \* the node occurrences of the extracted HTML, in order
    \* ---- EpubExtractor
    book_items,  \* the book's manifest items
    epub_chapters, \* self.chapters: (title, base, frag, nxt)
    full_md,     \* self._full_md, set only when there are no chapters
    \* ---- cli.main and Summarizer.run
    argv_dir,    \* what sys.argv[1] is: "missing", "not_a_dir" or "dir"
    dir_entries, \* the entries of the directory, in sorted order
    files,       \* main's list of the .epub and .pdf paths
    fi,          \* position of main's loop in files
    sec_idx,     \* sections the current extractor's generator has yielded
    pending,     \* TRUE while a yielded section waits for its summary
    processed_any, \* run's local flag
    written,     \* the blocks appended to the output files, in order
    finished,    \* positions in files whose process_path returned
    \* ---- one call of a pure function
    arg,         \* the argument of the call
    ret          \* the value it returned

pdfDoc == <<numPages, outline, pageWords, textKind, fontHead>>
pdfExt == <<chapters, sub_map, reliable, score, sections, full_text>>
genVars == <<si, yielded, out>>
tocVars == <<toc, flat>>
domVars == <<dom, frag, nxt, content>>
epubVars == <<book_items, epub_chapters, full_md>>
batchVars == <<argv_dir, dir_entries, files, fi, sec_idx, pending, processed_any, written, finished>>
fnVars == <<arg, ret>>
vars == <<mode, pc, pdfDoc, pdfExt, genVars, tocVars, domVars, epubVars, batchVars, fnVars>>

(***************************************************************************)
(* Bounds of the model.                                                    *)
(***************************************************************************)
MaxRelChapters == 3
MaxPages == 3
MaxOutline == 4
MaxPlainPages == 5
MaxPlainOutline == 2
MaxTocNodes == 4
MaxDomNodes == 3
MaxEpubToc == 2
MaxFiles == 3

(***************************************************************************)
(* Generic helpers.                                                        *)
(***************************************************************************)
Range(s) == {s[i] : i \in 1..Len(s)}

SeqsUpTo(S, n) == UNION {[1..k -> S] : k \in 0..n}

RECURSIVE SumSeq(_)
SumSeq(s) == IF s = <<>> THEN 0 ELSE Head(s) + SumSeq(Tail(s))

RECURSIVE MinSeq(_)
MinSeq(s) ==
    IF Len(s) = 1 THEN s[1]
    ELSE LET m == MinSeq(Tail(s)) IN IF s[1] <= m THEN s[1] ELSE m

B2N(b) == IF b THEN 1 ELSE 0

(***************************************************************************)
(* Strings as sequences of characters.                                     *)
(***************************************************************************)
UpperChars ==
    <<"A","B","C","D","E","F","G","H","I","J","K","L","M","N","O","P","Q",
      "R","S","T","U","V","W","X","Y","Z","Á","É","Í","Ó","Ú","Ñ","Ü">>
LowerChars ==
    <<"a","b","c","d","e","f","g","h","i","j","k","l","m","n","o","p","q",
      "r","s","t","u","v","w","x","y","z","á","é","í","ó","ú","ñ","ü">>

Whitespace == {" ", "\t", "\n"}
Digits == {"0","1","2","3","4","5","6","7","8","9"}

LowerMap == [i \in 1..Len(UpperChars) |-> LowerChars[i]]
UpperIndex == [c \in Range(UpperChars) |-> CHOOSE i \in 1..Len(UpperChars) : UpperChars[i] = c]

\* str.lower(), one character
LowerChar(c) == IF c \in DOMAIN UpperIndex THEN LowerMap[UpperIndex[c]] ELSE c

\* str.lower()
Lower(s) == [i \in 1..Len(s) |-> LowerChar(s[i])]

\* str.strip(): drop leading and trailing whitespace
Strip(s) ==
    LET keep == {i \in 1..Len(s) : s[i] \notin Whitespace} IN
    IF keep = {} THEN <<>>
    ELSE LET lo == CHOOSE i \in keep : \A j \in keep : i <= j
             hi == CHOOSE i \in keep : \A j \in keep : j <= i
         IN  SubSeq(s, lo, hi)

\* Python's `sub in s`
Contains(s, sub) ==
    \E i \in 1..(Len(s) - Len(sub) + 1) : SubSeq(s, i, i + Len(sub) - 1) = sub

(***************************************************************************)
(* pdf_extractor._outline_is_reliable                                      *)
(***************************************************************************)
BadKw ==
    { <<"c","o","v","e","r">>,
      <<"c","o","p","y","r","i","g","h","t">>,
      <<"i","n","d","e","x">> }

RomanChars == {"i","v","x","l","c","d","m"}

\* cap_rx.search(t), cap_rx = (cap[ií]tulo|chapter|\d+|[ivxlcdm]+\.) with re.I
cap_rx_search(t) ==
    LET s == Lower(t) IN
    \/ Contains(s, <<"c","a","p","í","t","u","l","o">>)
    \/ Contains(s, <<"c","a","p","i","t","u","l","o">>)
    \/ Contains(s, <<"c","h","a","p","t","e","r">>)
    \/ \E i \in 1..Len(s) : s[i] \in Digits
    \/ \E i \in 1..(Len(s) - 1) : s[i] \in RomanChars /\ s[i + 1] = "."

\* titles = [getattr(dest, "title", "").strip().lower() for dest, _ in chapters]
rel_titles(chaps) == [i \in 1..Len(chaps) |-> Lower(Strip(chaps[i].title))]

\* page_idxs = [idx for _, idx in chapters]
rel_page_idxs(chaps) == [i \in 1..Len(chaps) |-> chaps[i].page]

\* faulty variant: coverage taken as the page span of the outline over the page count
sig_coverage_span(page_idxs, total) ==
    10 * (IF Len(page_idxs) = 0 THEN 0 ELSE page_idxs[Len(page_idxs)] - page_idxs[1])
        >= 6 * total

\* coverage >= 0.6, coverage = len(set(page_idxs)) / total_pages
sig_coverage(page_idxs, total) == 10 * Cardinality(Range(page_idxs)) >= 6 * total

\* diversity >= 0.4, diversity = len(set(titles)) / len(titles)
sig_diversity(titles) == 10 * Cardinality(Range(titles)) >= 4 * Len(titles)

\* keywords_ok = not any(any(b in t for b in bad_kw) for t in titles[:3])
sig_keywords_ok(titles) ==
    ~ \E i \in 1..Len(titles) : i <= 3 /\ \E b \in BadKw : Contains(titles[i], b)

\* numeric_ratio >= 0.3, numeric_ratio = sum(1 for t in titles if cap_rx.search(t)) / num_ch
sig_numeric_ratio(titles) ==
    10 * Cardinality({i \in 1..Len(titles) : cap_rx_search(titles[i])}) >= 3 * Len(titles)

\* sizes = [b - a for a, b in zip(page_idxs, page_idxs[1:])] or [0]
rel_sizes(page_idxs) ==
    IF Len(page_idxs) < 2 THEN <<0>>
    ELSE [i \in 1..(Len(page_idxs) - 1) |-> page_idxs[i + 1] - page_idxs[i]]

\* faulty variant: the largest gap is taken instead of the smallest
sig_min_distance_max(page_idxs) ==
    \E i \in 1..Len(rel_sizes(page_idxs)) : rel_sizes(page_idxs)[i] >= 3

\* min_distance >= 3, min_distance = min(sizes)
sig_min_distance(page_idxs) == MinSeq(rel_sizes(page_idxs)) >= 3

\* score = sum([...]) over the five signals
rel_score(chaps, total) ==
    LET page_idxs == rel_page_idxs(chaps)
        titles == rel_titles(chaps)
    IN    B2N(sig_coverage(page_idxs, total))
        + B2N(sig_diversity(titles))
        + B2N(sig_keywords_ok(titles))
        + B2N(sig_numeric_ratio(titles))
        + B2N(sig_min_distance(page_idxs))

\* if total_pages == 0 or num_ch < 3: return False
rel_gate(chaps, total) == total = 0 \/ Len(chaps) < 3

\* faulty variant: three signals are enough
rel_accept_three(sc) == sc >= 3

\* reliable = score >= 4
rel_accept(sc) == sc >= 4

\* the locals of one call: which return is taken, score and the value returned
rel_call(chaps, total) ==
    IF rel_gate(chaps, total)
    THEN [ret |-> "gate_return", score |-> 0, reliable |-> FALSE]
    ELSE LET sc == rel_score(chaps, total) IN
         [ret |-> "scored_return", score |-> sc, reliable |-> rel_accept(sc)]

outline_is_reliable(chaps, total) == rel_call(chaps, total).reliable

\* f"Capítulo {n}"
CapituloN(n) == <<"C","a","p","í","t","u","l","o"," ">> \o <<ToString(n)>>

(***************************************************************************)
(* pdf_extractor._clean_title                                              *)
(***************************************************************************)
\* the bullet character (U+2022) is written "U+2022"
LeaderChars == {"·", "U+2022", "."}
LowerClass == {"a","b","c","d","e","f","g","h","i","j","k","l","m","n","o","p","q",
               "r","s","t","u","v","w","x","y","z","á","é","í","ó","ú","ñ"}
UpperClass == Range(UpperChars)
Cased == Range(UpperChars) \cup Range(LowerChars)

\* str.upper(), one character
UpperChar(c) ==
    IF \E i \in 1..Len(LowerChars) : LowerChars[i] = c
    THEN UpperChars[CHOOSE i \in 1..Len(LowerChars) : LowerChars[i] = c]
    ELSE c

\* length of the run of characters of S at the head of s
RECURSIVE RunLen(_, _)
RunLen(s, S) == IF s # <<>> /\ s[1] \in S THEN 1 + RunLen(Tail(s), S) ELSE 0

\* re.sub(r"[S]{minLen,}", " ", s)
RECURSIVE ReplaceRuns(_, _, _)
ReplaceRuns(s, S, minLen) ==
    IF s = <<>> THEN <<>>
    ELSE LET n == RunLen(s, S) IN
         IF n = 0 THEN <<s[1]>> \o ReplaceRuns(Tail(s), S, minLen)
         ELSE (IF n >= minLen THEN <<" ">> ELSE SubSeq(s, 1, n))
                  \o ReplaceRuns(SubSeq(s, n + 1, Len(s)), S, minLen)

\* number of tokens of t.split(" ") and how many of them have length 1
RECURSIVE SplitStats(_, _, _)
SplitStats(s, curLen, acc) ==
    IF s = <<>>
    THEN [tokens |-> acc.tokens + 1, single |-> acc.single + B2N(curLen = 1)]
    ELSE IF s[1] = " "
         THEN SplitStats(Tail(s), 0,
                  [tokens |-> acc.tokens + 1, single |-> acc.single + B2N(curLen = 1)])
         ELSE SplitStats(Tail(s), curLen + 1, acc)

\* re.sub(r"(?<=[a-záéíóúñ])(?=[A-ZÁÉÍÓÚÜÑ])", " ", s)
RECURSIVE SplitCamel(_)
SplitCamel(s) ==
    IF Len(s) < 2 THEN s
    ELSE IF s[1] \in LowerClass /\ s[2] \in UpperClass
         THEN <<s[1], " ">> \o SplitCamel(Tail(s))
         ELSE <<s[1]>> \o SplitCamel(Tail(s))

\* str.title()
TitleCase(s) ==
    [i \in 1..Len(s) |->
        IF i > 1 /\ s[i - 1] \in Cased THEN LowerChar(s[i]) ELSE UpperChar(s[i])]

clean_title(t) ==
    LET t1 == ReplaceRuns(t, LeaderChars, 2)
        t2 == Strip(ReplaceRuns(t1, Whitespace, 1))
        st == SplitStats(t2, 0, [tokens |-> 0, single |-> 0])
        t3 == IF 10 * st.single >= 6 * st.tokens
              THEN SplitCamel(SelectSeq(t2, LAMBDA c : c # " "))
              ELSE t2
    IN  Strip(TitleCase(t3))

(***************************************************************************)
(* Page text.  A page's text is known by its number of words; textKind     *)
(* says what the non-empty pages look like: "plain" (no markup), "html"    *)
(* ("<p>..</p>" around the words) or "script" ("<script>..</script>"       *)
(* around them, which html_to_markdown removes).                           *)
(***************************************************************************)
MIN_WORDS == 60
MIN_PAGES_SUB == 3
MIN_WORDS_SUB == 800

\* list(range(a, b))
PyRange(a, b) == [i \in 1..(IF b > a THEN b - a ELSE 0) |-> a + i - 1]

\* "\n".join(pdf.pages[i].extract_text() or "" for i in pages)
JoinPages(pages) ==
    [pages |-> pages,
     words |-> SumSeq([i \in 1..Len(pages) |-> pageWords[pages[i]]]),
     kind  |-> textKind]

\* "<" in raw[:200] and "</" in raw
LooksLikeHtml(text) == text.kind # "plain" /\ text.words > 0

\* utils.html_to_markdown: script/style/nav/header/footer are dropped
html_to_markdown(text) ==
    [text EXCEPT !.words = IF text.kind = "script" THEN 0 ELSE text.words,
                 !.kind = "plain"]

\* faulty variant: a section of exactly MIN_WORDS words is dropped
long_enough_strict(md) == md.words > MIN_WORDS

\* len(md.split()) >= MIN_WORDS
long_enough(md) == md.words >= MIN_WORDS

\* html_to_markdown(raw) if "<" in raw[:200] and "</" in raw else raw.strip()
ToMarkdown(text) == IF LooksLikeHtml(text) THEN html_to_markdown(text) ELSE text

(***************************************************************************)
(* pdf_extractor._detect_by_fonts.  fontHead is the set of pages on which  *)
(* the font statistics find a centred heading line whose cleaned text is   *)
(* accepted (lines 104-153 and the text tests of lines 155-158); the       *)
(* heading line of page i reads "Capítulo i+1".                            *)
(***************************************************************************)
\* raw_text: the words of the best line of page i, joined and stripped
HeadingLine(i) == CapituloN(i + 1)

\* candidates (page_idx, title), in page order, without the preliminary pages
\* (i < 3); text = _clean_title(raw_text)
RECURSIVE font_candidates(_, _)
font_candidates(i, total) ==
    IF i >= total THEN <<>>
    ELSE (IF i \in fontHead /\ ~(i < 3)
          THEN <<[page |-> i, title |-> clean_title(HeadingLine(i))]>>
          ELSE <<>>)
             \o font_candidates(i + 1, total)

\* faulty variant: a single candidate is enough to produce a section
detect_by_fonts_single(total) ==
    LET cands == font_candidates(0, total) IN
    [idx \in 1..Len(cands) |->
        LET end == IF idx + 1 <= Len(cands) THEN cands[idx + 1].page ELSE total IN
        [title |-> cands[idx].title, pages |-> PyRange(cands[idx].page, end), level |-> 2]]

detect_by_fonts(total) ==
    LET cands == font_candidates(0, total) IN
    IF Len(cands) < 2 THEN <<>>
    ELSE [idx \in 1..Len(cands) |->
            LET end == IF idx + 1 <= Len(cands) THEN cands[idx + 1].page ELSE total IN
            [title |-> cands[idx].title, pages |-> PyRange(cands[idx].page, end),
             level |-> 2]]

(***************************************************************************)
(* PdfExtractor.__init__                                                   *)
(***************************************************************************)
\* get_destination_page_number(node) returned None
NonePage == -1

\* _walk over the outline, flattened in document order with each entry's depth
RECURSIVE walk(_, _, _, _)
walk(nodes, chaps, submap, current_root) ==
    IF nodes = <<>> THEN [chapters |-> chaps, sub_map |-> submap]
    ELSE LET node == Head(nodes)
             item == [title |-> node.title, page |-> node.page]
         IN
         IF node.page = NonePage THEN walk(Tail(nodes), chaps, submap, current_root)
         ELSE IF node.depth = 0
              THEN walk(Tail(nodes), Append(chaps, item), submap, node.page)
              ELSE IF node.depth = 1 /\ current_root # NonePage
                   THEN walk(Tail(nodes), chaps,
                             [submap EXCEPT ![current_root] = Append(@, item)],
                             current_root)
                   ELSE walk(Tail(nodes), chaps, submap, current_root)

\* faulty variant: the word count is not looked at
is_substantial_no_words(page_count, words_sub, chap_page_count) ==
    \/ page_count >= MIN_PAGES_SUB
    \/ (chap_page_count > 0 /\ 4 * page_count >= chap_page_count)

\* the substantiality test of lines 231-235
is_substantial(page_count, words_sub, chap_page_count) ==
    \/ page_count >= MIN_PAGES_SUB
    \/ words_sub >= MIN_WORDS_SUB
    \/ (chap_page_count > 0 /\ 4 * page_count >= chap_page_count)

\* substantial_subs of one chapter
substantial_subs(subs, chap_pages, chap_end) ==
    LET one(s_idx) ==
            LET sub_end == IF s_idx + 1 <= Len(subs) THEN subs[s_idx + 1].page ELSE chap_end
                sub_pages == PyRange(subs[s_idx].page, sub_end)
            IN  IF is_substantial(Len(sub_pages), JoinPages(sub_pages).words, Len(chap_pages))
                THEN <<[title |-> clean_title(subs[s_idx].title), pages |-> sub_pages,
                        level |-> 3]>>
                ELSE <<>>
        RECURSIVE all(_)
        all(s_idx) == IF s_idx > Len(subs) THEN <<>> ELSE one(s_idx) \o all(s_idx + 1)
    IN  all(1)

\* faulty variant: the page on which the next chapter starts is taken too
chapter_section_inclusive(chaps, idx, total) ==
    LET chap_end == IF idx + 1 <= Len(chaps) THEN chaps[idx + 1].page + 1 ELSE total
        raw == IF chaps[idx].title # <<>> THEN chaps[idx].title ELSE CapituloN(idx)
    IN  [title |-> clean_title(raw), pages |-> PyRange(chaps[idx].page, chap_end),
         level |-> 2]

\* the chapter's own section: its pages run to the next chapter's start page
chapter_section(chaps, idx, total) ==
    LET chap_end == IF idx + 1 <= Len(chaps) THEN chaps[idx + 1].page ELSE total
        raw == IF chaps[idx].title # <<>> THEN chaps[idx].title ELSE CapituloN(idx)
    IN  [title |-> clean_title(raw), pages |-> PyRange(chaps[idx].page, chap_end),
         level |-> 2]

\* the loop of lines 209-242
RECURSIVE outline_sections(_, _, _, _)
outline_sections(chaps, submap, idx, total) ==
    IF idx > Len(chaps) THEN <<>>
    ELSE LET chap == chapter_section(chaps, idx, total)
             chap_end == IF idx + 1 <= Len(chaps) THEN chaps[idx + 1].page ELSE total
         IN  <<chap>> \o substantial_subs(submap[chaps[idx].page], chap.pages, chap_end)
                 \o outline_sections(chaps, submap, idx + 1, total)

(***************************************************************************)
(* utils.flatten_toc.  A TOC node is an epub.Link, [kind |-> "link"], or a *)
(* Python tuple (node, children), [kind |-> "tuple"], whose own node is an *)
(* epub.Link or an epub.Section.  book.toc is None, one Link or a list.    *)
(***************************************************************************)
\* Python's None where a string is expected
NoneStr == <<"None">>

\* s or ""
OrEmpty(s) == IF s = NoneStr THEN <<>> ELSE s

\* item = (node.title or "", node.href or "")
toc_item(node) == <<OrEmpty(node.title), OrEmpty(node.href)>>

\* faulty variant: every Link is appended, seen or not
toc_emit_all(acc, item) == Append(acc, item)

\* if item not in seen: out.append(item); seen.add(item)
toc_emit(acc, item) == IF item \in Range(acc) THEN acc ELSE Append(acc, item)

\* walk(items), returning `out` (`seen` is the set of its elements)
RECURSIVE toc_walk(_, _)
toc_walk(items, acc) ==
    IF items = <<>> THEN acc
    ELSE LET node == Head(items)
             acc1 == IF node.kind = "link" THEN toc_emit(acc, toc_item(node))
                     ELSE IF node.kind = "tuple" THEN toc_walk(node.children, acc)
                     ELSE acc
         IN  toc_walk(Tail(items), acc1)

flatten_toc(t) ==
    LET nodes == IF t.kind = "none" THEN <<>>
                 ELSE IF t.kind = "link" THEN <<t>>
                 ELSE t.items
    IN  toc_walk(nodes, <<>>)

(***************************************************************************)
(* epub_extractor._section_md.  A parsed resource is the sequence of its   *)
(* nodes in document order; a node is a Tag or a text node and carries its *)
(* depth in the tree, so the subtree of node i is i and the run of deeper  *)
(* nodes that follows it.  str(node) of a Tag serialises its whole subtree.*)
(***************************************************************************)
DecomposedTags == {"script", "style", "nav", "header", "footer"}

\* last index of the subtree rooted at node i
SubtreeEnd(d, i) ==
    CHOOSE j \in i..Len(d) :
        /\ \A k \in (i + 1)..j : d[k].depth > d[i].depth
        /\ j = Len(d) \/ d[j + 1].depth <= d[i].depth

\* str(node): the node and its descendants
Subtree(d, i) == [k \in 1..(SubtreeEnd(d, i) - i + 1) |-> i + k - 1]

\* for tag in soup.find_all([...]): tag.decompose()
RECURSIVE decompose(_, _)
decompose(d, i) ==
    IF i > Len(d) THEN <<>>
    ELSE IF d[i].kind = "tag" /\ d[i].tag \in DecomposedTags
         THEN decompose(d, SubtreeEnd(d, i) + 1)
         ELSE <<d[i]>> \o decompose(d, i + 1)

\* soup.find(id=frag) or soup.find(attrs={"name": frag}) if frag else None
find_start(soup, f) ==
    LET byId == {i \in 1..Len(soup) : soup[i].kind = "tag" /\ soup[i].id = f}
        byName == {i \in 1..Len(soup) : soup[i].kind = "tag" /\ soup[i].name = f}
        Min(S) == CHOOSE x \in S : \A y \in S : x <= y
    IN  IF f = <<>> THEN 0
        ELSE IF byId # {} THEN Min(byId)
        ELSE IF byName # {} THEN Min(byName)
        ELSE 0

\* nid = node.get("id") or node.get("name")
node_nid(n) == IF n.id # <<>> THEN n.id ELSE n.name

\* the first node of start.next_elements at which the loop breaks (Len + 1: none)
break_at(soup, start, n) ==
    LET hits == {j \in (start + 1)..Len(soup) :
                    soup[j].kind = "tag" /\ n # <<>> /\ node_nid(soup[j]) = n}
    IN  IF hits = {} THEN Len(soup) + 1 ELSE CHOOSE j \in hits : \A k \in hits : j <= k

\* pieces.append(str(node)) for the nodes j .. stop - 1 of next_elements
RECURSIVE pieces_from(_, _, _)
pieces_from(soup, j, stop) ==
    IF j >= stop THEN <<>>
    ELSE Subtree(soup, j) \o pieces_from(soup, j + 1, stop)

\* the node occurrences of the HTML that _section_md hands to html_to_markdown
section_nodes(d, f, n) ==
    LET soup == decompose(d, 1)
        start == find_start(soup, f)
    IN  IF start = 0 THEN [k \in 1..Len(soup) |-> k]
        ELSE Subtree(soup, start) \o pieces_from(soup, start + 1, break_at(soup, start, n))

(***************************************************************************)
(* epub_extractor: the TOC filters, the chapter list and sections().       *)
(***************************************************************************)
NON_CONTENT_TITLES ==
    {<<"c","o","v","e","r">>,
     <<"t","i","t","l","e">>,
     <<"t","i","t","l","e"," ","p","a","g","e">>,
     <<"c","o","p","y","r","i","g","h","t">>,
     <<"a","c","k","n","o","w","l","e","d","g","m","e","n","t","s">>,
     <<"c","o","n","t","e","n","t","s">>,
     <<"t","a","b","l","e"," ","o","f"," ","c","o","n","t","e","n","t","s">>,
     <<"i","n","d","e","x">>,
     <<"d","e","d","i","c","a","t","i","o","n">>,
     <<"p","r","e","f","a","c","e">>,
     <<"f","r","o","n","t"," ","m","a","t","t","e","r">>,
     <<"f","o","r","e","w","o","r","d">>,
     <<"a","b","o","u","t"," ","t","h","e"," ","a","u","t","h","o","r">>,
     <<"b","i","b","l","i","o","g","r","a","p","h","y">>,
     <<"g","l","o","s","s","a","r","y">>,
     <<"c","o","l","o","p","h","o","n">>,
     <<"l","e","g","a","l">>,
     <<"c","u","b","i","e","r","t","a">>,
     <<"p","o","r","t","a","d","a">>,
     <<"c","r","é","d","i","t","o","s">>,
     <<"a","g","r","a","d","e","c","i","m","i","e","n","t","o","s">>,
     <<"í","n","d","i","c","e">>,
     <<"t","a","b","l","a"," ","d","e"," ","c","o","n","t","e","n","i","d","o">>,
     <<"d","e","d","i","c","a","t","o","r","i","a">>,
     <<"p","r","e","f","a","c","i","o">>,
     <<"p","r","ó","l","o","g","o">>,
     <<"e","p","í","l","o","g","o">>,
     <<"s","o","b","r","e"," ","e","l"," ","a","u","t","o","r">>,
     <<"a","c","e","r","c","a"," ","d","e","l"," ","a","u","t","o","r">>,
     <<"b","i","o","g","r","a","f","í","a">>,
     <<"b","i","b","l","i","o","g","r","a","f","í","a">>,
     <<"g","l","o","s","a","r","i","o">>,
     <<"c","o","l","o","f","ó","n">>,
     <<"l","i","c","e","n","c","i","a">>,
     <<"n","o","t","a"," ","d","e","l"," ","a","u","t","o","r">>,
     <<"n","o","t","a"," ","d","e"," ","l","a"," ","a","u","t","o","r","a">>,
     <<"n","o","t","a"," ","d","e","l"," ","e","d","i","t","o","r">>,
     <<"n","o","t","a"," ","d","e"," ","l","a"," ","e","d","i","t","o","r","i","a","l">>}

\* faulty variant: only a title that equals a denylist term is rejected
content_title_exact(title) ==
    LET t == Lower(Strip(ReplaceRuns(OrEmpty(title), Whitespace, 1)))
    IN  t # <<>> /\ t \notin NON_CONTENT_TITLES

\* re.sub(r"\s+", " ", title or "").strip().lower(); bool(t) and no keyword in t
content_title(title) ==
    LET t == Lower(Strip(ReplaceRuns(OrEmpty(title), Whitespace, 1)))
    IN  t # <<>> /\ \A k \in NON_CONTENT_TITLES : ~Contains(t, k)

\* the alternatives of _HREF_SKIP that may be followed by anything
HrefSkipStems ==
    {<<"t","o","c",".","n","c","x">>,
     <<"t","o","c",".","h","t","m">>,
     <<"t","o","c",".","x","h","t","m">>,
     <<"n","a","v",".","h","t","m">>,
     <<"n","a","v",".","x","h","t","m">>,
     <<"t","i","t","l","e">>,
     <<"c","o","v","e","r">>,
     <<"c","o","p","y","r","i","g","h","t">>,
     <<"a","c","k","n","o","w","l","e","d","g">>,
     <<"f","r","o","n","t">>,
     <<"c","o","l","o","p","h","o","n">>,
     <<"a","b","o","u","t">>,
     <<"d","e","d","i","c">>,
     <<"p","r","e","f","a","c","e">>,
     <<"f","o","r","e","w","o","r","d">>,
     <<"p","r","o","l","o","g">>,
     <<"e","p","i","l","o","g">>,
     <<"g","l","o","s","s">>,
     <<"b","i","b","l","i","o">>,
     <<"l","e","g","a","l">>}

\* the alternatives of _HREF_SKIP that must end the string
HrefSkipIndex ==
    {<<"i","n","d","e","x",".","h","t","m">>,
     <<"i","n","d","e","x",".","h","t","m","l">>,
     <<"i","n","d","e","x",".","x","h","t","m">>,
     <<"i","n","d","e","x",".","x","h","t","m","l">>}

\* s[p:].startswith(w)
StartsAt(s, p, w) == p + Len(w) - 1 <= Len(s) /\ SubSeq(s, p, p + Len(w) - 1) = w

\* "$": the end of the string, or just before a newline that ends it
AtEnd(s, p) == p = Len(s) + 1 \/ (p = Len(s) /\ s[p] = "\n")

\* faulty variant: the older filter, any href that contains "index"
skip_href_substring(href) ==
    LET h == Lower(OrEmpty(href)) IN
    \/ Contains(h, <<"i","n","d","e","x">>)
    \/ \E p \in 1..Len(h) : \E w \in HrefSkipStems :
          (p = 1 \/ h[p - 1] = "/") /\ StartsAt(h, p, w)

\* bool(_HREF_SKIP.search((href or "").lower()))
skip_href(href) ==
    LET h == Lower(OrEmpty(href)) IN
    \E p \in 1..Len(h) :
        /\ p = 1 \/ h[p - 1] = "/"
        /\ \/ \E w \in HrefSkipStems : StartsAt(h, p, w)
           \/ \E w \in HrefSkipIndex : StartsAt(h, p, w) /\ AtEnd(h, p + Len(w))

\* utils.split_href: href.split("#", 1) when "#" is in href, else (href or "", "")
split_href(href) ==
    LET h == OrEmpty(href)
        hashes == {i \in 1..Len(h) : h[i] = "#"}
    IN  IF hashes = {} THEN [base |-> h, frag |-> <<>>]
        ELSE LET i == CHOOSE x \in hashes : \A y \in hashes : x <= y
             IN  [base |-> SubSeq(h, 1, i - 1), frag |-> SubSeq(h, i + 1, Len(h))]

\* faulty variant: the title is not looked at
epub_keep_any_title(title, href) == href # <<>> /\ ~skip_href(href)

\* an entry is kept unless `not href` or `not _content_title(title) or _skip_href(href)`
epub_keep(title, href) == href # <<>> /\ content_title(title) /\ ~skip_href(href)

\* raw: the TOC entries that pass the filters, as (title.strip() or "Capítulo", base, frag)
RECURSIVE epub_raw(_)
epub_raw(fl) ==
    IF fl = <<>> THEN <<>>
    ELSE LET title == Head(fl)[1]
             href == Head(fl)[2]
         IN  IF ~epub_keep(title, href)
             THEN epub_raw(Tail(fl))
             ELSE <<[title |-> IF Strip(title) # <<>> THEN Strip(title)
                               ELSE <<"C","a","p","í","t","u","l","o">>,
                     base |-> split_href(href).base,
                     frag |-> split_href(href).frag]>> \o epub_raw(Tail(fl))

\* faulty variant: only the entry right after i is looked at
epub_nxt_adjacent(raw, i) ==
    IF i + 1 <= Len(raw) /\ raw[i + 1].base = raw[i].base THEN raw[i + 1].frag ELSE <<>>

\* nxt of entry i: the fragment of the first later entry with the same base (or None)
epub_nxt(raw, i) ==
    LET later == {j \in (i + 1)..Len(raw) : raw[j].base = raw[i].base}
    IN  IF later = {} THEN <<>>
        ELSE raw[CHOOSE j \in later : \A k \in later : j <= k].frag

\* self.chapters
epub_build_chapters(raw) ==
    [i \in 1..Len(raw) |->
        [title |-> raw[i].title, base |-> raw[i].base, frag |-> raw[i].frag,
         nxt |-> epub_nxt(raw, i)]]

\* s.lstrip("./")
RECURSIVE LStripDotSlash(_)
LStripDotSlash(s) ==
    IF s # <<>> /\ s[1] \in {".", "/"} THEN LStripDotSlash(Tail(s)) ELSE s

\* getattr(it, "href", ""): the items of the manifest are known by file_name
\* (get_name()) and carry no attribute href
item_href(it) == <<>>

\* faulty variant: a base that names no item resolves to the first item
item_by_base_first(its, base) ==
    LET exact == {i \in 1..Len(its) : its[i].file_name = base}
        Min(S) == CHOOSE x \in S : \A y \in S : x <= y
    IN  IF exact # {} THEN Min(exact) ELSE IF its # <<>> THEN 1 ELSE 0

\* _item_by_base: index of the item in the manifest, 0 for None
item_by_base(its, base) ==
    LET exact == {i \in 1..Len(its) : its[i].file_name = base}
        loose == {i \in 1..Len(its) :
                     LStripDotSlash(item_href(its[i])) = LStripDotSlash(base)}
        Min(S) == CHOOSE x \in S : \A y \in S : x <= y
    IN  IF exact # {} THEN Min(exact)
        ELSE IF loose # {} THEN Min(loose)
        ELSE 0

\* utils.html_to_markdown on parsed HTML: the texts that remain, and their words
html_nodes_to_markdown(nodes) ==
    LET kept == decompose(nodes, 1)
        texts == SelectSeq(kept, LAMBDA n : n.kind = "text" /\ n.words > 0)
        ws == [k \in 1..Len(texts) |-> texts[k].words]
    IN  [words |-> SumSeq(ws), texts |-> ws]

EmptyMd == [words |-> 0, texts |-> <<>>]

\* _section_md(book, base, frag, nxt)
section_md(its, base, f, n) ==
    LET i == item_by_base(its, base) IN
    IF i = 0 THEN EmptyMd
    ELSE LET soup == decompose(its[i].dom, 1)
             occ == section_nodes(its[i].dom, f, n)
         IN  html_nodes_to_markdown([k \in 1..Len(occ) |-> soup[occ[k]]])

\* "\n".join(it.get_content() for it in its), parsed
RECURSIVE JoinItems(_)
JoinItems(its) ==
    IF its = <<>> THEN <<>> ELSE Head(its).dom \o JoinItems(Tail(its))

\* the whole-book fallback text built by EpubExtractor.__init__
epub_full_md(its) ==
    LET docs == SelectSeq(its, LAMBDA it : it.document)
        spine == SelectSeq(its, LAMBDA it : it.in_spine /\ (it.document \/ it.media_html))
    IN  html_nodes_to_markdown(JoinItems(IF docs # <<>> THEN docs ELSE spine))

(***************************************************************************)
(* Inputs of the reliability check.                                        *)
(***************************************************************************)
TCapitulo1 == <<"C","a","p","í","t","u","l","o"," ","1">>
TCapitulo1Upper == <<" ","C","A","P","Í","T","U","L","O"," ","1">>
TIntro == <<"I","n","t","r","o">>
TIndex == <<"I","n","d","e","x">>
TRoman == <<"I","V","."," ","F","i","n">>

RelTitles == {TCapitulo1, TCapitulo1Upper, TIntro, TIndex, TRoman}
RelPages == {0, 3, 6}
RelTotals == {0, 5, 7}

\* the chapter list of the reliability example: pages 0, 50, ..., titles "Capítulo N"
ExampleChapters(n) == [i \in 1..n |-> [title |-> CapituloN(i), page |-> 50 * (i - 1)]]

\* the variables a behaviour does not use
IdlePdfDoc ==
    /\ outline = <<>> /\ pageWords = <<>> /\ textKind = "plain" /\ fontHead = {}
IdlePdfExt ==
    /\ sub_map = <<>> /\ sections = <<>>
    /\ full_text = [pages |-> <<>>, words |-> 0, kind |-> "plain"]
IdleGen ==
    /\ si = 1 /\ yielded = FALSE /\ out = <<>>
IdleToc ==
    /\ toc = [kind |-> "none"] /\ flat = <<>>
IdleDom ==
    /\ dom = <<>> /\ frag = <<>> /\ nxt = <<>> /\ content = <<>>
IdleFn ==
    /\ arg = <<>> /\ ret = FALSE
IdleBatch ==
    /\ argv_dir = "dir" /\ dir_entries = <<>> /\ files = <<>> /\ fi = 1 /\ sec_idx = 0
    /\ pending = FALSE /\ processed_any = FALSE /\ written = <<>> /\ finished = {}
IdleEpub ==
    /\ book_items = <<>> /\ epub_chapters = <<>> /\ full_md = [set |-> FALSE, md |-> [words |-> 0, texts |-> <<>>]]

InitReliable ==
    /\ mode = "reliable"
    /\ pc = "call"
    /\ reliable = FALSE
    /\ score = 0
    /\ IdlePdfDoc /\ IdlePdfExt /\ IdleGen /\ IdleToc /\ IdleDom /\ IdleEpub /\ IdleBatch /\ IdleFn
    /\ \/ /\ numPages \in RelTotals
          /\ chapters \in SeqsUpTo([title : RelTitles, page : RelPages], MaxRelChapters)
       \/ /\ numPages = 200
          /\ \E n \in 0..5 : chapters = ExampleChapters(n)

\* one call of _outline_is_reliable(chapters, total_pages)
CheckOutline ==
    /\ mode = "reliable"
    /\ pc = "call"
    /\ LET r == rel_call(chapters, numPages) IN
        /\ reliable' = r.reliable
        /\ score' = r.score
        /\ pc' = r.ret
    /\ UNCHANGED <<mode, chapters, pdfDoc, sub_map, sections, full_text, genVars, tocVars, domVars, epubVars, batchVars, fnVars>>

NextReliable == CheckOutline

SpecReliable == InitReliable /\ [][NextReliable]_vars

(***************************************************************************)
(* One PDF: PdfExtractor(path), then one run of sections().                *)
(***************************************************************************)
LibroCompleto == <<"L","i","b","r","o"," ","c","o","m","p","l","e","t","o">>
TCover == <<"C","o","v","e","r">>

OutlineDepths == {0, 1}
WordChoices == {0, 20, 60}
TextProfiles ==
    [kind : {"plain"}, w : WordChoices] \cup [kind : {"html", "script"}, w : {60}]
TitleStyles == {"numbered", "front"}

\* the title of the i-th outline entry
TitleOf(style, i) == IF style = "front" /\ i = 1 THEN TCover ELSE CapituloN(i)

InitPdf ==
    /\ mode = "pdf"
    /\ pc = "construct"
    /\ numPages \in 0..MaxPages
    /\ \E sk \in SeqsUpTo([depth : OutlineDepths,
                           page : {NonePage} \cup (0..(numPages - 1))], MaxOutline),
          style \in TitleStyles :
          outline = [i \in 1..Len(sk) |->
                        [depth |-> sk[i].depth, page |-> sk[i].page,
                         title |-> TitleOf(style, i)]]
    /\ \E tp \in TextProfiles :
          /\ textKind = tp.kind
          /\ pageWords = [p \in 0..(numPages - 1) |-> tp.w]
    /\ fontHead \in SUBSET (3..(numPages - 1))
    /\ chapters = <<>> /\ reliable = FALSE /\ score = 0
    /\ IdlePdfExt /\ IdleGen /\ IdleToc /\ IdleDom /\ IdleEpub /\ IdleBatch /\ IdleFn

\* PdfExtractor.__init__
\* faulty variant: any outline with a chapter is used, reliable or not
use_outline_any(chaps, rel) == chaps # <<>>

\* if self._chapters and _outline_is_reliable(self._chapters, ...)
use_outline(chaps, rel) == chaps # <<>> /\ rel

PdfConstruct ==
    /\ mode = "pdf"
    /\ pc = "construct"
    /\ LET w == walk(outline, <<>>, [p \in 0..(numPages - 1) |-> <<>>], NonePage)
           r == IF w.chapters # <<>> THEN rel_call(w.chapters, numPages)
                ELSE [ret |-> "not_called", score |-> 0, reliable |-> FALSE]
       IN  /\ chapters' = w.chapters
           /\ sub_map' = w.sub_map
           /\ reliable' = r.reliable
           /\ score' = r.score
           /\ sections' = IF use_outline(w.chapters, r.reliable)
                          THEN outline_sections(w.chapters, w.sub_map, 1, numPages)
                          ELSE detect_by_fonts(numPages)
    /\ full_text' = JoinPages(PyRange(0, numPages))
    /\ pc' = "sections"
    /\ UNCHANGED <<mode, pdfDoc, genVars, tocVars, domVars, epubVars, batchVars, fnVars>>

\* ExtractorBase.sections, one turn of its loop over _iter_raw_sections()
BaseSectionsNext ==
    /\ mode = "pdf"
    /\ pc = "sections"
    /\ si <= Len(sections)
    /\ LET sec == sections[si]
           raw == JoinPages(sec.pages)
           md == ToMarkdown(raw)
       IN  IF raw.words > 0 /\ long_enough(md)
           THEN /\ yielded' = TRUE
                /\ out' = Append(out, [title |-> sec.title, md |-> md, level |-> sec.level])
           ELSE UNCHANGED <<yielded, out>>
    /\ si' = si + 1
    /\ UNCHANGED <<mode, pc, pdfDoc, pdfExt, tocVars, domVars, epubVars, batchVars, fnVars>>

\* faulty variant: the fallback does not look at what the loop yielded
fallback_due_always(y, full, md) == full.words > 0 /\ md.words > 0

\* if not yielded: full = self._fallback_full_text().strip(); if full: ... if md:
fallback_due(y, full, md) == ~y /\ full.words > 0 /\ md.words > 0

\* ExtractorBase.sections after the loop: the whole-book fallback
BaseSectionsEnd ==
    /\ mode = "pdf"
    /\ pc = "sections"
    /\ si > Len(sections)
    /\ LET md == ToMarkdown(full_text) IN
       IF fallback_due(yielded, full_text, md)
       THEN out' = Append(out, [title |-> LibroCompleto, md |-> md, level |-> 2])
       ELSE UNCHANGED out
    /\ pc' = "done"
    /\ UNCHANGED <<mode, pdfDoc, pdfExt, si, yielded, tocVars, domVars, epubVars, batchVars, fnVars>>

NextPdf == PdfConstruct \/ BaseSectionsNext \/ BaseSectionsEnd

SpecPdf == InitPdf /\ [][NextPdf]_vars

(***************************************************************************)
(* C2 (as stated): the entries yielded by sections() are in non-decreasing *)
(* document-position order: no entry's start page precedes the start page  *)
(* of an entry yielded before it, for every outline accepted as reliable.  *)
(***************************************************************************)
StartPage(entry) == entry.md.pages[1]

C2_Ordering ==
    mode = "pdf" =>
        \A i, j \in 1..Len(out) : i < j => StartPage(out[i]) <= StartPage(out[j])

(***************************************************************************)
(* C6 (as stated): the yielded sections of one document are pairwise       *)
(* non-overlapping: no page contributes content to two different yielded   *)
(* sections, also when a chapter is followed by its substantial            *)
(* subchapters.                                                            *)
(***************************************************************************)
C6_NonOverlap ==
    mode = "pdf" =>
        \A i, j \in 1..Len(out) :
            i # j => Range(out[i].md.pages) \cap Range(out[j].md.pages) = {}

(***************************************************************************)
(* One call of flatten_toc on a TOC of at most MaxTocNodes nodes.          *)
(***************************************************************************)
\* epub.Link(title, href); Link(None, x) and Link("", x) give the same pair
TocLinks ==
    {[kind |-> "link", title |-> <<"A">>, href |-> <<"x">>],
     [kind |-> "link", title |-> <<"A">>, href |-> <<"y">>],
     [kind |-> "link", title |-> <<>>, href |-> <<"x">>],
     [kind |-> "link", title |-> NoneStr, href |-> <<"x">>]}
\* the own node of a tuple: an epub.Link or an epub.Section
TocHeads ==
    {[kind |-> "link", title |-> <<"A">>, href |-> <<"x">>],
     [kind |-> "section", title |-> <<"S">>, href |-> <<>>]}

\* the trees of exactly k nodes and the lists of trees of exactly n nodes
RECURSIVE TocTrees(_), TocLists(_)
TocTrees(k) ==
    (IF k = 1 THEN TocLinks ELSE {})
        \cup {[kind |-> "tuple", node |-> h, children |-> c] :
                 h \in TocHeads, c \in TocLists(k - 1)}
TocLists(n) ==
    IF n = 0 THEN {<<>>}
    ELSE UNION {{<<t>> \o r : t \in TocTrees(k), r \in TocLists(n - k)} : k \in 1..n}

InitToc ==
    /\ mode = "toc"
    /\ pc = "call"
    /\ \/ toc = [kind |-> "none"]
       \/ toc \in TocLinks
       \/ \E n \in 0..MaxTocNodes : \E l \in TocLists(n) : toc = [kind |-> "list", items |-> l]
    /\ flat = <<>>
    /\ numPages = 0 /\ chapters = <<>> /\ reliable = FALSE /\ score = 0
    /\ IdlePdfDoc /\ IdlePdfExt /\ IdleGen /\ IdleDom /\ IdleEpub /\ IdleBatch /\ IdleFn

\* flatten_toc(book.toc)
Flatten ==
    /\ mode = "toc"
    /\ pc = "call"
    /\ flat' = flatten_toc(toc)
    /\ pc' = "returned"
    /\ UNCHANGED <<mode, toc, pdfDoc, pdfExt, genVars, domVars, epubVars, batchVars, fnVars>>

NextToc == Flatten

SpecToc == InitToc /\ [][NextToc]_vars

TocReturned == mode = "toc" /\ pc = "returned"

\* the nodes of a TOC list, in document order (a tuple before its children)
RECURSIVE TocNodes(_)
TocNodes(items) ==
    IF items = <<>> THEN <<>>
    ELSE (IF Head(items).kind = "tuple"
          THEN <<Head(items)>> \o TocNodes(Head(items).children)
          ELSE <<Head(items)>>) \o TocNodes(Tail(items))

TocItems == IF toc.kind = "list" THEN toc.items ELSE <<>>

\* position of the first occurrence of x in s (0 when absent)
FirstIndex(s, x) ==
    IF x \in Range(s) THEN CHOOSE i \in 1..Len(s) : s[i] = x /\ \A j \in 1..(i - 1) : s[j] # x
    ELSE 0

(***************************************************************************)
(* C9 (as stated): for every composite node (node, children) whose own     *)
(* node carries a title or a locator, the flattened output contains the    *)
(* node's own (title, locator) entry, placed before the entries of its     *)
(* children.                                                               *)
(***************************************************************************)
C9_CompositeOwnEntry ==
    TocReturned =>
        \A t \in Range(TocNodes(TocItems)) :
            (t.kind = "tuple" /\ (OrEmpty(t.node.title) # <<>> \/ OrEmpty(t.node.href) # <<>>)) =>
                /\ toc_item(t.node) \in Range(flat)
                /\ \A c \in Range(TocNodes(t.children)) :
                      (c.kind = "link" /\ toc_item(c) # toc_item(t.node)) =>
                          FirstIndex(flat, toc_item(t.node)) <= FirstIndex(flat, toc_item(c))

(***************************************************************************)
(* C10: flatten_toc returns the (title, locator) pairs of the Link entries *)
(* of the TOC in depth-first document order, duplicates removed by         *)
(* (title, locator) identity keeping the first occurrence and the relative *)
(* order; a TOC that is one Link yields that one pair, and None or an      *)
(* empty list yields the empty sequence.                                   *)
(***************************************************************************)
\* the pairs of the Link entries of the list, in document order, duplicates kept
TocLinkPairs ==
    LET ns == SelectSeq(TocNodes(TocItems), LAMBDA n : n.kind = "link")
    IN  [i \in 1..Len(ns) |-> <<OrEmpty(ns[i].title), OrEmpty(ns[i].href)>>]

C10_FlattenOrder ==
    TocReturned =>
        /\ toc.kind = "none" => flat = <<>>
        /\ toc.kind = "link" => flat = << <<OrEmpty(toc.title), OrEmpty(toc.href)>> >>
        /\ toc.kind = "list" =>
              LET all == TocLinkPairs IN
              /\ Range(flat) = Range(all)
              /\ \A i, j \in 1..Len(flat) : i < j => flat[i] # flat[j]
              /\ \A i, j \in 1..Len(flat) :
                    i < j => FirstIndex(all, flat[i]) < FirstIndex(all, flat[j])

C10_Witness ==
    /\ TocReturned
    /\ toc.kind = "list"
    /\ Len(flat) >= 2
    /\ Len(TocLinkPairs) > Len(flat)
    /\ \E t \in Range(toc.items) : t.kind = "tuple" /\ t.children # <<>>

(***************************************************************************)
(* One call of _section_md on a resource of at most MaxDomNodes nodes.     *)
(***************************************************************************)
AnchorA == <<"s", "1">>
AnchorB == <<"s", "2">>

DomLabels ==
    {[kind |-> "text", tag |-> "", id |-> <<>>, name |-> <<>>, words |-> 1],
     [kind |-> "tag", tag |-> "div", id |-> <<>>, name |-> <<>>, words |-> 0],
     [kind |-> "tag", tag |-> "div", id |-> AnchorA, name |-> <<>>, words |-> 0],
     [kind |-> "tag", tag |-> "div", id |-> AnchorB, name |-> <<>>, words |-> 0],
     [kind |-> "tag", tag |-> "a", id |-> <<>>, name |-> AnchorB, words |-> 0],
     [kind |-> "tag", tag |-> "script", id |-> <<>>, name |-> <<>>, words |-> 0]}

WithDepth(l, dp) ==
    [kind |-> l.kind, tag |-> l.tag, id |-> l.id, name |-> l.name, words |-> l.words, depth |-> dp]

\* the documents of exactly n nodes: only a Tag has children
RECURSIVE DomDocs(_)
DomDocs(n) ==
    IF n = 0 THEN {<<>>}
    ELSE {Append(d, WithDepth(l, dp)) :
             d \in DomDocs(n - 1), l \in DomLabels,
             dp \in 0..(IF n = 1 THEN 0 ELSE n - 1)}

WellFormedDom(d) ==
    \A i \in 1..Len(d) :
        IF i = 1 THEN d[i].depth = 0
        ELSE d[i].depth <= d[i - 1].depth + (IF d[i - 1].kind = "tag" THEN 1 ELSE 0)

InitDom ==
    /\ mode = "dom"
    /\ pc = "call"
    /\ \E n \in 0..MaxDomNodes : \E d \in DomDocs(n) : WellFormedDom(d) /\ dom = d
    /\ frag \in {<<>>, AnchorA}
    /\ nxt \in {<<>>, AnchorB}
    /\ content = <<>>
    /\ numPages = 0 /\ chapters = <<>> /\ reliable = FALSE /\ score = 0
    /\ IdlePdfDoc /\ IdlePdfExt /\ IdleGen /\ IdleToc /\ IdleEpub /\ IdleBatch /\ IdleFn

\* _section_md(book, base, frag, nxt), the resource found
SectionMd ==
    /\ mode = "dom"
    /\ pc = "call"
    /\ content' = section_nodes(dom, frag, nxt)
    /\ pc' = "returned"
    /\ UNCHANGED <<mode, dom, frag, nxt, pdfDoc, pdfExt, genVars, tocVars, epubVars, batchVars, fnVars>>

NextDom == SectionMd

SpecDom == InitDom /\ [][NextDom]_vars

\* how many times node i of the soup occurs in the extracted content
Occurrences(i) == Cardinality({k \in 1..Len(content) : content[k] = i})

(***************************************************************************)
(* C3 (as stated): when the anchor `frag` is found and a node with id/name *)
(* `nxt` follows it, the extracted content holds no node at or after that  *)
(* boundary node, wherever the boundary sits in the tree, and holds every  *)
(* node from the anchor up to the boundary exactly once.                   *)
(***************************************************************************)
C3_BoundaryExclusive ==
    (mode = "dom" /\ pc = "returned") =>
        LET soup == decompose(dom, 1)
            start == find_start(soup, frag)
            bound == break_at(soup, start, nxt)
        IN  (start # 0 /\ bound <= Len(soup)) =>
                \A i \in 1..Len(soup) :
                    /\ i >= bound => Occurrences(i) = 0
                    /\ (start <= i /\ i < bound) => Occurrences(i) = 1

(***************************************************************************)
(* EpubExtractor on a book whose TOC has at most MaxEpubToc entries and    *)
(* whose manifest holds a.xhtml (anchors s1 and s2) and b.xhtml.           *)
(***************************************************************************)
EpubLinks ==
    {[kind |-> "link", title |-> <<"U","n","o">>, href |-> <<"a",".","x","h","t","m","l","#","s","1">>],
     [kind |-> "link", title |-> <<"D","o","s">>, href |-> <<"a",".","x","h","t","m","l","#","s","2">>],
     [kind |-> "link", title |-> <<"T","r","e","s">>, href |-> <<"b",".","x","h","t","m","l">>],
     [kind |-> "link", title |-> <<"C","o","v","e","r">>, href |-> <<"a",".","x","h","t","m","l">>],
     [kind |-> "link", title |-> <<"U","n","o">>, href |-> <<"c","o","v","e","r",".","x","h","t","m","l">>],
     [kind |-> "link", title |-> <<"I","n","t","r","o">>, href |-> <<>>],
     [kind |-> "link", title |-> <<" "," ">>, href |-> <<"b",".","x","h","t","m","l">>],
     [kind |-> "link", title |-> <<"F","i","n">>, href |-> <<"z",".","x","h","t","m","l">>],
     [kind |-> "link", title |-> <<"S","e","i","s">>, href |-> <<"#","s","2">>]}

HrefA == <<"a",".","x","h","t","m","l">>
HrefB == <<"b",".","x","h","t","m","l">>

DomTag(tg, i, dp) == [kind |-> "tag", tag |-> tg, id |-> i, name |-> <<>>, words |-> 0, depth |-> dp]
DomText(w, dp) == [kind |-> "text", tag |-> "", id |-> <<>>, name |-> <<>>, words |-> w, depth |-> dp]

\* a.xhtml: the anchors as empty siblings of the text, as wrappers of it, or nested
DomsA(w1, w2) ==
    {<<DomTag("a", AnchorA, 0), DomText(w1, 0), DomTag("a", AnchorB, 0), DomText(w2, 0)>>,
     <<DomTag("div", AnchorA, 0), DomText(w1, 1), DomTag("div", AnchorB, 0), DomText(w2, 1)>>,
     <<DomTag("div", AnchorA, 0), DomText(w1, 1), DomTag("div", AnchorB, 1), DomText(w2, 2)>>}

\* b.xhtml: one paragraph, or text that is only inside a script
DomsB ==
    {<<DomTag("p", <<>>, 0), DomText(0, 1)>>,
     <<DomTag("p", <<>>, 0), DomText(60, 1)>>,
     <<DomTag("script", <<>>, 0), DomText(60, 1)>>}

\* how the manifest types an item: ITEM_DOCUMENT, or not typed so but of an
\* html media type (in the spine or not), or of another media type
TypedDocument == [document |-> TRUE, media_html |-> TRUE, in_spine |-> TRUE]
HtmlInSpine == [document |-> FALSE, media_html |-> TRUE, in_spine |-> TRUE]
HtmlOffSpine == [document |-> FALSE, media_html |-> TRUE, in_spine |-> FALSE]
OtherInSpine == [document |-> FALSE, media_html |-> FALSE, in_spine |-> TRUE]

\* the typings of the two items of the manifest
ItemTypings ==
    {<<TypedDocument, TypedDocument>>,
     <<HtmlInSpine, HtmlInSpine>>,
     <<OtherInSpine, OtherInSpine>>,
     <<TypedDocument, HtmlInSpine>>,
     <<HtmlOffSpine, HtmlInSpine>>}

EpubItem(h, d, ty) ==
    [file_name |-> h, dom |-> d, document |-> ty.document,
     media_html |-> ty.media_html, in_spine |-> ty.in_spine]

\* the book with a cover, one chapter and an index, each a resource of its own
CubiertaToc ==
    <<[kind |-> "link", title |-> <<"C","u","b","i","e","r","t","a">>, href |-> <<"c","o","v","e","r",".","x","h","t","m","l">>],
      [kind |-> "link", title |-> <<"C","a","p","í","t","u","l","o"," ","1">>, href |-> <<"c","h","1",".","x","h","t","m","l">>],
      [kind |-> "link", title |-> <<"Í","n","d","i","c","e">>, href |-> <<"i","n","d","e","x",".","x","h","t","m","l">>]>>

CubiertaItems(wc, w1, wi) ==
    LET ty == TypedDocument
        Doc(w) == <<DomTag("p", <<>>, 0), DomText(w, 1)>>
    IN  <<EpubItem(<<"c","o","v","e","r",".","x","h","t","m","l">>, Doc(wc), ty),
          EpubItem(<<"c","h","1",".","x","h","t","m","l">>, Doc(w1), ty),
          EpubItem(<<"i","n","d","e","x",".","x","h","t","m","l">>, Doc(wi), ty)>>

InitEpub ==
    /\ mode = "epub"
    /\ pc = "construct"
    /\ \/ /\ \E l \in SeqsUpTo(EpubLinks, MaxEpubToc) : toc = [kind |-> "list", items |-> l]
          /\ \E w1 \in {0, 30, 60}, w2 \in {0, 60}, ty \in ItemTypings :
                \E da \in DomsA(w1, w2), db \in DomsB :
                    book_items = <<EpubItem(HrefA, da, ty[1]), EpubItem(HrefB, db, ty[2])>>
       \/ /\ toc = [kind |-> "list", items |-> CubiertaToc]
          /\ \E wc \in {0, 30, 60}, w1 \in {0, 30, 60}, wi \in {0, 30, 60} :
                book_items = CubiertaItems(wc, w1, wi)
    /\ epub_chapters = <<>>
    /\ full_md = [set |-> FALSE, md |-> EmptyMd]
    /\ flat = <<>>
    /\ numPages = 0 /\ chapters = <<>> /\ reliable = FALSE /\ score = 0
    /\ IdlePdfDoc /\ IdlePdfExt /\ IdleGen /\ IdleDom /\ IdleBatch /\ IdleFn

\* EpubExtractor.__init__
EpubConstruct ==
    /\ mode = "epub"
    /\ pc = "construct"
    /\ LET chs == epub_build_chapters(epub_raw(flatten_toc(toc))) IN
       /\ epub_chapters' = chs
       /\ full_md' = IF chs = <<>> THEN [set |-> TRUE, md |-> epub_full_md(book_items)]
                     ELSE full_md
    /\ pc' = "sections"
    /\ UNCHANGED <<mode, book_items, pdfDoc, pdfExt, genVars, tocVars, domVars, batchVars, fnVars>>

\* EpubExtractor.sections, one turn of the loop over self.chapters
EpubSectionsNext ==
    /\ mode = "epub"
    /\ pc = "sections"
    /\ epub_chapters # <<>>
    /\ si <= Len(epub_chapters)
    /\ LET ch == epub_chapters[si]
           md == section_md(book_items, ch.base, ch.frag, ch.nxt)
       IN  IF ~long_enough(md) THEN UNCHANGED out
           ELSE out' = Append(out, [title |-> ch.title, md |-> md])
    /\ si' = si + 1
    /\ UNCHANGED <<mode, pc, yielded, pdfDoc, pdfExt, tocVars, domVars, epubVars, batchVars, fnVars>>

\* EpubExtractor.sections, the loop over self.chapters is exhausted
EpubSectionsEnd ==
    /\ mode = "epub"
    /\ pc = "sections"
    /\ epub_chapters # <<>>
    /\ si > Len(epub_chapters)
    /\ pc' = "done"
    /\ UNCHANGED <<mode, pdfDoc, pdfExt, genVars, tocVars, domVars, epubVars, batchVars, fnVars>>

\* EpubExtractor.sections without chapters: the whole-book fallback
EpubSectionsFallback ==
    /\ mode = "epub"
    /\ pc = "sections"
    /\ epub_chapters = <<>>
    /\ LET md == IF full_md.set THEN full_md.md ELSE EmptyMd IN
       IF md.words > 0 THEN out' = Append(out, [title |-> LibroCompleto, md |-> md])
       ELSE UNCHANGED out
    /\ pc' = "done"
    /\ UNCHANGED <<mode, si, yielded, pdfDoc, pdfExt, tocVars, domVars, epubVars, batchVars, fnVars>>

NextEpub == EpubConstruct \/ EpubSectionsNext \/ EpubSectionsEnd \/ EpubSectionsFallback

SpecEpub == InitEpub /\ [][NextEpub]_vars

\* a PDF of at most MaxPlainPages pages with at most MaxPlainOutline bookmarks,
\* all of depth 0, and any pages from the fourth on headed in a large font
InitPdfShortOutline ==
    /\ mode = "pdf"
    /\ pc = "construct"
    /\ numPages \in 0..MaxPlainPages
    /\ \E pgs \in SeqsUpTo({NonePage} \cup (0..(numPages - 1)), MaxPlainOutline) :
          outline = [i \in 1..Len(pgs) |->
                        [depth |-> 0, page |-> pgs[i], title |-> TitleOf("numbered", i)]]
    /\ \E tp \in TextProfiles :
          /\ textKind = tp.kind
          /\ \E lw \in {tp.w, 20} :
                pageWords = [p \in 0..(numPages - 1) |->
                                IF p = numPages - 1 THEN lw ELSE tp.w]
    /\ fontHead \in SUBSET (3..(numPages - 1))
    /\ chapters = <<>> /\ reliable = FALSE /\ score = 0
    /\ IdlePdfExt /\ IdleGen /\ IdleToc /\ IdleDom /\ IdleEpub /\ IdleBatch /\ IdleFn

\* either extractor on one document
InitExtract == InitPdfShortOutline \/ InitEpub

NextExtract == NextPdf \/ NextEpub

SpecExtract == InitExtract /\ [][NextExtract]_vars

\* node i of d lies inside a script/style/nav/header/footer element
InDecomposed(d, i) ==
    \E k \in 1..i : d[k].kind = "tag" /\ d[k].tag \in DecomposedTags /\ i <= SubtreeEnd(d, k)

\* the document has text: a page with words (PDF), an (X)HTML resource with
\* words outside markup that is never rendered (EPUB)
PdfHasText == \E p \in 0..(numPages - 1) : pageWords[p] > 0
EpubHasText ==
    \E k \in 1..Len(book_items) :
        /\ book_items[k].document \/ book_items[k].media_html
        /\ \E i \in 1..Len(book_items[k].dom) :
              /\ book_items[k].dom[i].kind = "text"
              /\ book_items[k].dom[i].words > 0
              /\ ~InDecomposed(book_items[k].dom, i)

\* sections() returned exactly one entry, the whole book
OnlyLibroCompleto == Len(out) = 1 /\ out[1].title = LibroCompleto

\* every candidate section of the constructed extractor is under the minimum
PdfAllShort ==
    \A i \in 1..Len(sections) : ToMarkdown(JoinPages(sections[i].pages)).words < MIN_WORDS
EpubAllShort ==
    \A i \in 1..Len(epub_chapters) :
        section_md(book_items, epub_chapters[i].base, epub_chapters[i].frag,
                   epub_chapters[i].nxt).words < MIN_WORDS

(***************************************************************************)
(* C1 (as stated): for a document with non-empty text in which every       *)
(* candidate section fails the 60-word minimum, sections() yields exactly  *)
(* one entry, titled "Libro completo", with PdfExtractor and with          *)
(* EpubExtractor.                                                          *)
(***************************************************************************)
C1_FallbackGuarantee ==
    pc = "done" =>
        /\ (mode = "pdf" /\ PdfHasText /\ PdfAllShort) => OnlyLibroCompleto
        /\ (mode = "epub" /\ EpubHasText /\ EpubAllShort) => OnlyLibroCompleto

(***************************************************************************)
(* C8 (as stated): a document with non-empty text and no candidate section *)
(* (EPUB: no TOC entry survives the title/href filters; PDF: neither a     *)
(* reliable outline nor the typographic detector gives a section) makes    *)
(* sections() yield exactly one entry, titled "Libro completo".            *)
(***************************************************************************)
C8_NoSectionsFallback ==
    pc = "done" =>
        /\ (mode = "pdf" /\ PdfHasText /\ sections = <<>>) => OnlyLibroCompleto
        /\ (mode = "epub" /\ EpubHasText /\ epub_chapters = <<>>) => OnlyLibroCompleto

(***************************************************************************)
(* cli.main over a directory of at most MaxFiles entries.  A document of   *)
(* the batch is described by what its extractor does with it: the          *)
(* constructor raises (malformed) or sections() yields nsec entries, the   *)
(* document's whole-book text is not empty (has_text), and the constructor *)
(* of EpubExtractor found no chapter and set _full_md (full_md_set).       *)
(***************************************************************************)
MaxSectionsPerDoc == 2

BatchDocs ==
    [suffix : {"epub", "pdf"}, malformed : {FALSE}, nsec : 1..MaxSectionsPerDoc,
     has_text : {TRUE}, full_md_set : {FALSE}]
        \cup [suffix : {"epub"}, malformed : {FALSE}, nsec : {1}, has_text : {TRUE},
              full_md_set : {TRUE}]
        \cup [suffix : {"epub"}, malformed : {FALSE}, nsec : {0}, has_text : BOOLEAN,
              full_md_set : BOOLEAN]
        \cup [suffix : {"pdf"}, malformed : {FALSE}, nsec : {0}, has_text : BOOLEAN,
              full_md_set : {FALSE}]
        \cup [suffix : {"epub", "pdf"}, malformed : {TRUE}, nsec : {0}, has_text : {FALSE},
              full_md_set : {FALSE}]
        \cup [suffix : {"txt"}, malformed : {FALSE}, nsec : {0}, has_text : {FALSE},
              full_md_set : {FALSE}]

\* the attributes the extractor object built for the document doc has
ExtractorAttrs(doc) ==
    IF doc.suffix = "epub"
    THEN {"path", "book", "chapters"} \cup (IF doc.full_md_set THEN {"_full_md"} ELSE {})
    ELSE {"path", "reader", "_chapters", "_sub_map", "_sections", "_full_text", "MIN_WORDS"}

InitBatch ==
    /\ mode = "batch"
    /\ pc = "main"
    /\ argv_dir \in {"missing", "not_a_dir", "dir"}
    /\ IF argv_dir = "dir" THEN dir_entries \in SeqsUpTo(BatchDocs, MaxFiles)
       ELSE dir_entries = <<>>
    /\ files = <<>> /\ fi = 1 /\ sec_idx = 0 /\ pending = FALSE
    /\ processed_any = FALSE /\ written = <<>> /\ finished = {}
    /\ numPages = 0 /\ chapters = <<>> /\ reliable = FALSE /\ score = 0
    /\ IdlePdfDoc /\ IdlePdfExt /\ IdleGen /\ IdleToc /\ IdleDom /\ IdleEpub /\ IdleFn

\* main up to its loop: argument checks and the sorted list of .epub/.pdf paths
MainStart ==
    /\ mode = "batch"
    /\ pc = "main"
    /\ IF argv_dir # "dir" THEN pc' = "exit_1" /\ UNCHANGED files
       ELSE LET fs == SelectSeq(dir_entries, LAMBDA d : d.suffix \in {"epub", "pdf"}) IN
            /\ files' = fs
            /\ pc' = IF fs = <<>> THEN "exit" ELSE "loop"
    /\ UNCHANGED <<argv_dir, dir_entries, fi, sec_idx, pending, processed_any, written, finished>>
    /\ UNCHANGED <<pdfDoc, pdfExt, genVars, tocVars, domVars, epubVars, fnVars, mode>>

\* for p in files: process_path(p) -- the extractor's constructor
ProcessPath ==
    /\ mode = "batch"
    /\ pc = "loop"
    /\ fi <= Len(files)
    /\ pc' = IF files[fi].malformed THEN "crashed" ELSE "run"
    /\ sec_idx' = 0
    /\ pending' = FALSE
    /\ processed_any' = FALSE
    /\ UNCHANGED <<argv_dir, dir_entries, files, fi, written, finished>>
    /\ UNCHANGED <<pdfDoc, pdfExt, genVars, tocVars, domVars, epubVars, fnVars, mode>>

\* Summarizer.run: the generator yields its next section
RunNextSection ==
    /\ mode = "batch"
    /\ pc = "run"
    /\ ~pending
    /\ sec_idx < files[fi].nsec
    /\ sec_idx' = sec_idx + 1
    /\ pending' = TRUE
    /\ UNCHANGED <<pc, argv_dir, dir_entries, files, fi, processed_any, written, finished>>
    /\ UNCHANGED <<pdfDoc, pdfExt, genVars, tocVars, domVars, epubVars, fnVars, mode>>

\* Summarizer.run: _summarize_chunk and append_chapter_summary of that section
RunSummarize ==
    /\ mode = "batch"
    /\ pc = "run"
    /\ pending
    /\ processed_any' = TRUE
    /\ written' = Append(written, [doc |-> fi, block |-> "chapter", idx |-> sec_idx])
    /\ pending' = FALSE
    /\ UNCHANGED <<pc, argv_dir, dir_entries, files, fi, sec_idx, finished>>
    /\ UNCHANGED <<pdfDoc, pdfExt, genVars, tocVars, domVars, epubVars, fnVars, mode>>

\* faulty variant: the general summary is made whether or not a section was processed
RunFinishAlwaysGeneral ==
    /\ mode = "batch"
    /\ pc = "run"
    /\ ~pending
    /\ sec_idx = files[fi].nsec
    /\ written' = Append(written, [doc |-> fi, block |-> "general", idx |-> 0])
    /\ finished' = finished \cup {fi}
    /\ fi' = fi + 1
    /\ pc' = IF fi + 1 > Len(files) THEN "exit" ELSE "loop"
    /\ UNCHANGED <<argv_dir, dir_entries, files, sec_idx, pending, processed_any>>
    /\ UNCHANGED <<pdfDoc, pdfExt, genVars, tocVars, domVars, epubVars, fnVars, mode>>

\* faulty variant: run returns before the generator of sections is exhausted
RunFinishEarly ==
    /\ mode = "batch"
    /\ pc = "run"
    /\ ~pending
    /\ written' = IF processed_any
                  THEN Append(written, [doc |-> fi, block |-> "general", idx |-> 0])
                  ELSE written
    /\ finished' = finished \cup {fi}
    /\ fi' = fi + 1
    /\ pc' = IF fi + 1 > Len(files) THEN "exit" ELSE "loop"
    /\ UNCHANGED <<argv_dir, dir_entries, files, sec_idx, pending, processed_any>>
    /\ UNCHANGED <<pdfDoc, pdfExt, genVars, tocVars, domVars, epubVars, fnVars, mode>>

\* Summarizer.run after its loop, and process_path's return to main's loop
RunFinish ==
    /\ mode = "batch"
    /\ pc = "run"
    /\ ~pending
    /\ sec_idx = files[fi].nsec
    /\ LET fallback == ~processed_any
                       /\ "_fallback_full_md" \in ExtractorAttrs(files[fi])
                       /\ files[fi].has_text
           w1 == IF fallback
                 THEN Append(written, [doc |-> fi, block |-> "chapter", idx |-> 0])
                 ELSE written
       IN  /\ processed_any' = (processed_any \/ fallback)
           /\ written' = IF processed_any \/ fallback
                         THEN Append(w1, [doc |-> fi, block |-> "general", idx |-> 0])
                         ELSE w1
    /\ finished' = finished \cup {fi}
    /\ fi' = fi + 1
    /\ pc' = IF fi + 1 > Len(files) THEN "exit" ELSE "loop"
    /\ UNCHANGED <<argv_dir, dir_entries, files, sec_idx, pending>>
    /\ UNCHANGED <<pdfDoc, pdfExt, genVars, tocVars, domVars, epubVars, fnVars, mode>>

Next == MainStart \/ ProcessPath \/ RunNextSection \/ RunSummarize \/ RunFinish

Spec == InitBatch /\ [][Next]_vars

(***************************************************************************)
(* C7 (as stated): when the constructor raises for one document of the     *)
(* batch, main skips that document and still processes every later         *)
(* document: once main has ended, every well-formed document that comes    *)
(* after a malformed one has been processed.                               *)
(***************************************************************************)
C7_MalformedIsolation ==
    (mode = "batch" /\ pc \in {"exit", "crashed"}) =>
        \A i \in 1..Len(files) :
            (~files[i].malformed /\ \E j \in 1..(i - 1) : files[j].malformed) =>
                i \in finished

RelReturned == mode = "reliable" /\ pc \in {"gate_return", "scored_return"}

(***************************************************************************)
(* C4 (as stated): the five-chapter example is accepted with all five      *)
(* signals holding (score 5/5), and a two-chapter list is rejected at the  *)
(* entry-count gate.                                                       *)
(***************************************************************************)
C4_Original ==
    (RelReturned /\ numPages = 200) =>
        /\ chapters = ExampleChapters(5) => (reliable /\ score = 5)
        /\ chapters = ExampleChapters(2) => (~reliable /\ pc = "gate_return")

(***************************************************************************)
(* C4 (amended): the five-chapter example (pages 0,50,..,200 of 200, titles *)
(* "Capítulo N") is accepted with exactly four signals holding: diversity, *)
(* keywords_ok, numeric_ratio and min_distance hold, coverage (5/200) does *)
(* not.  A two-chapter list is rejected at the entry-count gate, before    *)
(* any signal is computed.                                                 *)
(***************************************************************************)
C4_ExampleScoresFour ==
    (RelReturned /\ numPages = 200) =>
        /\ chapters = ExampleChapters(5) =>
              /\ reliable
              /\ pc = "scored_return"
              /\ score = 4
              /\ 10 * Cardinality({chapters[i].page : i \in 1..5}) < 6 * numPages
        /\ chapters = ExampleChapters(2) => (~reliable /\ pc = "gate_return")

C4_Witness ==
    /\ RelReturned /\ numPages = 200
    /\ chapters = ExampleChapters(5)
    /\ reliable

(***************************************************************************)
(* C5: _outline_is_reliable returns false when totalPages = 0 or there are *)
(* fewer than 3 chapters; otherwise it returns true exactly when at least  *)
(* 4 of the 5 signals hold: distinct pages / totalPages >= 0.6, distinct   *)
(* normalized titles / titles >= 0.4, none of the first 3 titles contains  *)
(* a banned keyword, numbered titles / titles >= 0.3, and every difference *)
(* between consecutive start pages (outline order) >= 3.                   *)
(***************************************************************************)
C5_Signals ==
    LET n == Len(chapters)
        norm(i) == Lower(Strip(chapters[i].title))
    IN  << 5 * Cardinality({chapters[i].page : i \in 1..n}) >= 3 * numPages,
           5 * Cardinality({norm(i) : i \in 1..n}) >= 2 * n,
           \A i \in 1..3 : \A b \in BadKw : ~Contains(norm(i), b),
           10 * Cardinality({i \in 1..n : cap_rx_search(chapters[i].title)}) >= 3 * n,
           \A i \in 1..(n - 1) : chapters[i + 1].page - chapters[i].page >= 3 >>

C5_Reliability ==
    RelReturned =>
        IF numPages = 0 \/ Len(chapters) < 3
        THEN ~reliable
        ELSE LET sig == C5_Signals IN
             reliable <=> Cardinality({k \in 1..5 : sig[k]}) >= 4

C5_Witness ==
    /\ RelReturned
    /\ numPages # 0 /\ Len(chapters) >= 3
    /\ reliable
    /\ score = 4

(***************************************************************************)
(* One call of _skip_href on an href made of a directory, a file name, an  *)
(* extension and whatever follows it.                                      *)
(***************************************************************************)
HrefDirs ==
    {<<>>,
     <<"O","E","B","P","S","/">>,
     <<"i","n","d","e","x","/">>}
HrefNames ==
    {<<"i","n","d","e","x">>,
     <<"I","n","d","e","x">>,
     <<"i","n","d","e","x","_","s","p","l","i","t","_","0","0","1">>,
     <<"m","y","i","n","d","e","x">>,
     <<"c","h","a","p","t","e","r","0","1">>,
     <<"c","o","v","e","r">>,
     <<"t","o","c">>}
HrefExts ==
    {<<".","x","h","t","m","l">>,
     <<".","h","t","m","l">>,
     <<".","h","t","m">>,
     <<".","x","h","t","m">>,
     <<".","x","m","l">>,
     <<>>}
HrefTails ==
    {<<>>,
     <<"#","a">>,
     <<"z">>}

HrefInputs == {d \o n \o e \o t : d \in HrefDirs, n \in HrefNames, e \in HrefExts, t \in HrefTails}

InitHref ==
    /\ mode = "skip_href"
    /\ pc = "call"
    /\ arg \in HrefInputs
    /\ ret = FALSE
    /\ numPages = 0 /\ chapters = <<>> /\ reliable = FALSE /\ score = 0
    /\ IdlePdfDoc /\ IdlePdfExt /\ IdleGen /\ IdleToc /\ IdleDom /\ IdleEpub /\ IdleBatch

\* _skip_href(href)
SkipHref ==
    /\ mode = "skip_href"
    /\ pc = "call"
    /\ ret' = skip_href(arg)
    /\ pc' = "returned"
    /\ UNCHANGED <<mode, arg, pdfDoc, pdfExt, genVars, tocVars, domVars, epubVars, batchVars>>

NextHref == SkipHref

SpecHref == InitHref /\ [][NextHref]_vars

\* the part of s after its last "/"
LastSegment(s) ==
    LET slashes == {i \in 1..Len(s) : s[i] = "/"}
        last == IF slashes = {} THEN 0 ELSE CHOOSE i \in slashes : \A j \in slashes : j <= i
    IN  SubSeq(s, last + 1, Len(s))

\* some path segment of s begins with one of the other noise words (cover, toc., ...)
OtherNoiseSegment(s) ==
    \E p \in 1..Len(s) : \E w \in HrefSkipStems :
        /\ p = 1 \/ s[p - 1] = "/"
        /\ p + Len(w) - 1 <= Len(s)
        /\ \A k \in 1..Len(w) : s[p + k - 1] = w[k]

(***************************************************************************)
(* C11: _skip_href("index_split_001.xhtml") is false,                      *)
(* _skip_href("OEBPS/index.xhtml") is true, _skip_href("chapter01.xhtml")  *)
(* is false; and an href with no other noise word is rejected exactly when *)
(* its last path segment, ignoring case, is index.htm, index.html,         *)
(* index.xhtm or index.xhtml -- never because "index" is part of a longer  *)
(* file name.                                                              *)
(***************************************************************************)
C11_IndexPrecision ==
    (mode = "skip_href" /\ pc = "returned") =>
        /\ arg = <<"i","n","d","e","x","_","s","p","l","i","t","_","0","0","1",".","x","h","t","m","l">> => ~ret
        /\ arg = <<"O","E","B","P","S","/","i","n","d","e","x",".","x","h","t","m","l">> => ret
        /\ arg = <<"c","h","a","p","t","e","r","0","1",".","x","h","t","m","l">> => ~ret
        /\ ~OtherNoiseSegment(Lower(arg)) =>
              (ret <=> LastSegment(Lower(arg)) \in HrefSkipIndex)

C11_Witness ==
    /\ mode = "skip_href" /\ pc = "returned"
    /\ arg = <<"i","n","d","e","x","_","s","p","l","i","t","_","0","0","1",".","x","h","t","m","l">>
    /\ ~ret

(***************************************************************************)
(* One call of _content_title on None or on a title made of a prefix, a    *)
(* core and a suffix.                                                      *)
(***************************************************************************)
TitlePrefixes ==
    {<<>>,
     <<" ">>,
     <<"S","u","b">>,
     <<"T","h","e"," ">>}
TitleCores ==
    {<<"t","i","t","l","e">>,
     <<"Í","n","d","i","c","e">>,
     <<"C","O","V","E","R">>,
     <<"n","o","t","a"," "," ","d","e","l","\t","a","u","t","o","r">>,
     <<"n","o","t","a"," ","d","e","l">>,
     <<"C","a","p","í","t","u","l","o"," ","1">>,
     <<"U","n","o">>,
     <<"P","R","Ó","L","O","G","O">>,
     <<>>}
TitleSuffixes ==
    {<<>>, <<"s">>, <<" ">>, <<"\n"," ","x">>}

TitleInputs ==
    {NoneStr} \cup {a \o b \o c : a \in TitlePrefixes, b \in TitleCores, c \in TitleSuffixes}

InitTitle ==
    /\ mode = "content_title"
    /\ pc = "call"
    /\ arg \in TitleInputs
    /\ ret = FALSE
    /\ numPages = 0 /\ chapters = <<>> /\ reliable = FALSE /\ score = 0
    /\ IdlePdfDoc /\ IdlePdfExt /\ IdleGen /\ IdleToc /\ IdleDom /\ IdleEpub /\ IdleBatch

\* _content_title(title)
ContentTitle ==
    /\ mode = "content_title"
    /\ pc = "call"
    /\ ret' = content_title(arg)
    /\ pc' = "returned"
    /\ UNCHANGED <<mode, arg, pdfDoc, pdfExt, genVars, tocVars, domVars, epubVars, batchVars>>

NextTitle == ContentTitle

SpecTitle == InitTitle /\ [][NextTitle]_vars

\* the whitespace-separated words of s, lowercased and joined by single spaces
RECURSIVE WordsJoined(_, _, _)
WordsJoined(s, cur, acc) ==
    IF s = <<>>
    THEN (IF cur = <<>> THEN acc ELSE IF acc = <<>> THEN cur ELSE acc \o <<" ">> \o cur)
    ELSE IF s[1] \in Whitespace
         THEN WordsJoined(Tail(s), <<>>,
                  IF cur = <<>> THEN acc ELSE IF acc = <<>> THEN cur ELSE acc \o <<" ">> \o cur)
         ELSE WordsJoined(Tail(s), Append(cur, LowerChar(s[1])), acc)

\* term k occurs in t at some position
OccursIn(t, k) ==
    \E p \in 1..(Len(t) - Len(k) + 1) : \A i \in 1..Len(k) : t[p + i - 1] = k[i]

(***************************************************************************)
(* C12: _content_title is false for None, for the empty title and for a    *)
(* title of whitespace only; false for every title that, once its          *)
(* whitespace is collapsed and it is lowercased, contains a denylist term  *)
(* at any position; and true for every other title.                        *)
(***************************************************************************)
C12_ContentTitle ==
    (mode = "content_title" /\ pc = "returned") =>
        LET t == IF arg = NoneStr THEN <<>> ELSE WordsJoined(arg, <<>>, <<>>)
        IN  ret <=> (t # <<>> /\ \A k \in NON_CONTENT_TITLES : ~OccursIn(t, k))

C12_Witness ==
    /\ mode = "content_title" /\ pc = "returned"
    /\ arg = <<"S","u","b","t","i","t","l","e","s">>
    /\ ~ret

\* the title is content: normalised it is non-empty and holds no denylist term
IsContentTitle(title) ==
    LET t == IF title = NoneStr THEN <<>> ELSE WordsJoined(title, <<>>, <<>>)
    IN  t # <<>> /\ \A k \in NON_CONTENT_TITLES : ~OccursIn(t, k)

\* the href is a noise locator: a noise word starts a segment, or the last segment is index.*
IsNoiseLocator(href) ==
    \/ OtherNoiseSegment(Lower(href))
    \/ LastSegment(Lower(href)) \in HrefSkipIndex

\* the (X)HTML words of the resource named nm (0 when the book has no such resource)
ResourceWords(nm) ==
    LET hits == {k \in 1..Len(book_items) : book_items[k].file_name = nm}
    IN  IF hits = {} THEN 0
        ELSE LET d == book_items[CHOOSE k \in hits : TRUE].dom
             IN  SumSeq([i \in 1..Len(d) |-> IF InDecomposed(d, i) THEN 0 ELSE d[i].words])

(***************************************************************************)
(* C13: every entry that EpubExtractor.sections() yields for a TOC item    *)
(* comes from an item with a non-empty href, a content title and an href   *)
(* that is not a noise locator, and its Markdown has at least 60 words;    *)
(* for the TOC [("Cubierta","cover.xhtml"), ("Capítulo 1","ch1.xhtml"),    *)
(* ("Índice","index.xhtml")] where only ch1.xhtml has 60 words or more,    *)
(* exactly one entry is yielded, titled "Capítulo 1".                      *)
(***************************************************************************)
C13_EpubFiltering ==
    (mode = "epub" /\ pc = "done") =>
        /\ epub_chapters # <<>> =>
              \A k \in 1..Len(out) :
                  /\ out[k].md.words >= 60
                  /\ \E i \in 1..Len(toc.items) :
                        /\ toc.items[i].href # <<>>
                        /\ IsContentTitle(toc.items[i].title)
                        /\ ~IsNoiseLocator(toc.items[i].href)
                        /\ out[k].title = Strip(toc.items[i].title)
        /\ (/\ toc.items = CubiertaToc
            /\ ResourceWords(<<"c","h","1",".","x","h","t","m","l">>) >= 60
            /\ ResourceWords(<<"c","o","v","e","r",".","x","h","t","m","l">>) < 60
            /\ ResourceWords(<<"i","n","d","e","x",".","x","h","t","m","l">>) < 60)
           => (Len(out) = 1 /\ out[1].title = <<"C","a","p","í","t","u","l","o"," ","1">>)

C13_Witness ==
    /\ mode = "epub" /\ pc = "done"
    /\ toc.items = CubiertaToc
    /\ ResourceWords(<<"c","h","1",".","x","h","t","m","l">>) >= 60
    /\ ResourceWords(<<"c","o","v","e","r",".","x","h","t","m","l">>) < 60
    /\ ResourceWords(<<"i","n","d","e","x",".","x","h","t","m","l">>) < 60
    /\ Len(out) = 1

\* the candidates of the constructed extractor, resolved to Markdown
PdfResolved == [i \in 1..Len(sections) |-> ToMarkdown(JoinPages(sections[i].pages))]
EpubResolved ==
    [i \in 1..Len(epub_chapters) |->
        section_md(book_items, epub_chapters[i].base, epub_chapters[i].frag,
                   epub_chapters[i].nxt)]

\* the positions of the candidates with 60 words or more, in order
LongOnes(resolved) ==
    SelectSeq([i \in 1..Len(resolved) |-> i], LAMBDA i : resolved[i].words >= 60)

\* the entries of out that are not the whole-document fallback
NonFallback ==
    IF mode = "pdf" THEN (IF yielded THEN out ELSE <<>>)
    ELSE (IF epub_chapters # <<>> THEN out ELSE <<>>)

(***************************************************************************)
(* C14: every section that sections() yields, the whole-document fallback  *)
(* apart, has at least 60 words of Markdown, and every resolved candidate  *)
(* with 60 words or more is yielded, in candidate order; with              *)
(* ExtractorBase.sections and with EpubExtractor.sections.                 *)
(***************************************************************************)
C14_MinWordsFilter ==
    (mode \in {"pdf", "epub"} /\ pc = "done") =>
        LET resolved == IF mode = "pdf" THEN PdfResolved ELSE EpubResolved
            long == LongOnes(resolved)
            kept == NonFallback
        IN  /\ \A k \in 1..Len(kept) : kept[k].md.words >= 60
            /\ Len(kept) = Len(long)
            /\ \A k \in 1..Len(kept) : kept[k].md = resolved[long[k]]

C14_Witness ==
    /\ mode = "pdf" /\ pc = "done"
    /\ Len(sections) >= 2
    /\ Len(out) = 1
    /\ yielded
    /\ out[1].md.words = 60

(***************************************************************************)
(* _detect_by_fonts on its own: a document of up to MaxFontPages pages     *)
(* with a heading line on any set of its pages.                            *)
(***************************************************************************)
MaxFontPages == 10

InitFonts ==
    /\ mode = "fonts"
    /\ pc = "call"
    /\ numPages \in 0..MaxFontPages
    /\ fontHead \in SUBSET (0..(numPages - 1))
    /\ arg = <<>>
    /\ ret = <<>>
    /\ outline = <<>> /\ pageWords = <<>> /\ textKind = "plain"
    /\ chapters = <<>> /\ reliable = FALSE /\ score = 0
    /\ IdlePdfExt /\ IdleGen /\ IdleToc /\ IdleDom /\ IdleEpub /\ IdleBatch

\* _detect_by_fonts(pdf_path, num_pages)
DetectByFonts ==
    /\ mode = "fonts"
    /\ pc = "call"
    /\ ret' = detect_by_fonts(numPages)
    /\ pc' = "returned"
    /\ UNCHANGED <<mode, arg, pdfDoc, pdfExt, genVars, tocVars, domVars, epubVars, batchVars>>

NextFonts == DetectByFonts

SpecFonts == InitFonts /\ [][NextFonts]_vars

\* the pages of the accepted candidates: a heading line, not a preliminary page
AcceptedPages == {p \in fontHead : p >= 3 /\ p < numPages}

\* the i-th smallest element of the set of numbers P
Ranked(P, i) == CHOOSE p \in P : Cardinality({q \in P : q < p}) = i - 1

\* pages is the list lo, lo+1, ..., hi-1
IsPageRange(pages, lo, hi) ==
    /\ Len(pages) = hi - lo
    /\ \A j \in 1..Len(pages) : pages[j] = lo + j - 1

(***************************************************************************)
(* C15: with accepted heading candidates on pages p1 < ... < pk of a       *)
(* document of N pages, _detect_by_fonts returns nothing when k < 2 and    *)
(* otherwise k level-2 sections with page ranges [p_i, p_{i+1}) and, for   *)
(* the last, [p_k, N); candidates on pages 4 and 9 give two sections with  *)
(* ranges [4,9) and [9,N).                                                 *)
(***************************************************************************)
C15_FontRanges ==
    (mode = "fonts" /\ pc = "returned") =>
        LET P == AcceptedPages
            k == Cardinality(P)
        IN  /\ k < 2 => ret = <<>>
            /\ k >= 2 =>
                  /\ Len(ret) = k
                  /\ \A i \in 1..k :
                        /\ ret[i].level = 2
                        /\ IsPageRange(ret[i].pages, Ranked(P, i),
                                       IF i < k THEN Ranked(P, i + 1) ELSE numPages)
            /\ P = {4, 9} =>
                  /\ Len(ret) = 2
                  /\ ret[1].pages = <<4, 5, 6, 7, 8>>
                  /\ ret[2].pages = [j \in 1..(numPages - 9) |-> 8 + j]

C15_Witness ==
    /\ mode = "fonts" /\ pc = "returned"
    /\ numPages = 10
    /\ AcceptedPages = {4, 9}
    /\ 1 \in fontHead
    /\ Len(ret) = 2
    /\ ret[2].pages = <<9>>

(***************************************************************************)
(* PdfExtractor.__init__ on its own: documents of up to MaxPathPages pages *)
(* whose outline has up to MaxPathChapters top-level bookmarks and at most *)
(* one nested bookmark (then the top-level ones in page order), a heading  *)
(* line on every page from the fourth on or on none, and 60 or 800 words   *)
(* on every page; and a document of 22 pages with chapters of 13, 4 and 5  *)
(* pages and up to MaxNested nested bookmarks.                             *)
(***************************************************************************)
MaxPathPages == 5
MaxPathChapters == 3
MaxNested == 2

\* the long document: its page count, its chapters' start pages and the pages
\* on which a nested bookmark may start
LongPages == 22
LongChapters == <<0, 13, 17>>
NestedStarts == {5, 10, 12, 16, 21}

PathWords == {60, 800}

\* the top-level bookmarks chs with one nested bookmark after the c-th of them
WithSub(chs, c, p) ==
    [i \in 1..(Len(chs) + 1) |->
        IF i <= c THEN [depth |-> 0, page |-> chs[i], title |-> CapituloN(i)]
        ELSE IF i = c + 1 THEN [depth |-> 1, page |-> p, title |-> CapituloN(i)]
        ELSE [depth |-> 0, page |-> chs[i - 1], title |-> CapituloN(i)]]

\* the top-level bookmarks chs from the i-th on, each followed by the nested
\* bookmarks of subs filed after it
RECURSIVE Interleave(_, _, _)
Interleave(chs, subs, i) ==
    IF i > Len(chs) THEN <<>>
    ELSE LET mine == SelectSeq(subs, LAMBDA sb : sb.after = i)
         IN  <<[depth |-> 0, page |-> chs[i]]>>
                 \o [k \in 1..Len(mine) |-> [depth |-> 1, page |-> mine[k].page]]
                 \o Interleave(chs, subs, i + 1)

\* the outline of the top-level bookmarks chs with the nested bookmarks subs
WithSubs(chs, subs) ==
    LET raw == Interleave(chs, subs, 1)
    IN  [j \in 1..Len(raw) |->
            [depth |-> raw[j].depth, page |-> raw[j].page, title |-> CapituloN(j)]]

\* the resolvable bookmarks of chs follow the page order
InPageOrder(chs) ==
    \A i, j \in 1..Len(chs) :
        (i < j /\ chs[i] # NonePage /\ chs[j] # NonePage) => chs[i] <= chs[j]

InitOutline ==
    /\ mode = "pdf"
    /\ pc = "construct"
    /\ \/ /\ numPages \in 0..MaxPathPages
          /\ \E chs \in SeqsUpTo({NonePage} \cup (0..(numPages - 1)), MaxPathChapters) :
                \/ outline = [i \in 1..Len(chs) |->
                                 [depth |-> 0, page |-> chs[i], title |-> CapituloN(i)]]
                \/ /\ InPageOrder(chs)
                   /\ \E c \in 0..Len(chs), p \in 0..(numPages - 1) :
                         outline = WithSub(chs, c, p)
          /\ fontHead \in {{}, 3..(numPages - 1)}
       \/ /\ numPages = LongPages
          /\ \E subs \in SeqsUpTo([after : 1..Len(LongChapters), page : NestedStarts],
                                  MaxNested) :
                /\ \A i, j \in 1..Len(subs) : i < j => subs[i].after <= subs[j].after
                /\ outline = WithSubs(LongChapters, subs)
          /\ fontHead = {}
    /\ textKind = "plain"
    /\ \E w \in PathWords : pageWords = [p \in 0..(numPages - 1) |-> w]
    /\ chapters = <<>> /\ reliable = FALSE /\ score = 0
    /\ IdlePdfExt /\ IdleGen /\ IdleToc /\ IdleDom /\ IdleEpub /\ IdleBatch /\ IdleFn

NextOutline == PdfConstruct

SpecOutline == InitOutline /\ [][NextOutline]_vars

\* the positions of the outline's resolvable top-level bookmarks, in order
ChapterEntries ==
    SelectSeq([i \in 1..Len(outline) |-> i],
              LAMBDA i : outline[i].depth = 0 /\ outline[i].page # NonePage)

\* the positions in secs of the sections of level lvl, in order
LevelPositions(secs, lvl) ==
    SelectSeq([i \in 1..Len(secs) |-> i], LAMBDA i : secs[i].level = lvl)

\* pages is the list lo, ..., hi-1, empty when hi <= lo
IsPyRange(pages, lo, hi) ==
    /\ Len(pages) = (IF hi > lo THEN hi - lo ELSE 0)
    /\ \A j \in 1..Len(pages) : pages[j] = lo + j - 1

\* end of the k-th chapter: the next chapter's start page or the page count
ChapterEnd(k) ==
    IF k < Len(ChapterEntries) THEN outline[ChapterEntries[k + 1]].page ELSE numPages

\* secs is built from the outline: one level-2 section per chapter, in order, on
\* the chapter's pages, and nothing else but level-3 sections that start on the
\* page of a nested bookmark
FromOutline(secs) ==
    LET l2 == LevelPositions(secs, 2) IN
    /\ Len(l2) = Len(ChapterEntries)
    /\ Len(l2) > 0
    /\ \A k \in 1..Len(l2) :
          IsPyRange(secs[l2[k]].pages, outline[ChapterEntries[k]].page, ChapterEnd(k))
    /\ \A i \in 1..Len(secs) :
          secs[i].level = 3 =>
              \E j \in 1..Len(outline) :
                  /\ outline[j].depth = 1
                  /\ \E hi \in 0..numPages : IsPyRange(secs[i].pages, outline[j].page, hi)

\* secs is what the typographic detector gives: nothing, or one level-2 section
\* per accepted heading page
FromFonts(secs) ==
    \/ secs = <<>> /\ Cardinality(AcceptedPages) < 2
    \/ /\ Cardinality(AcceptedPages) >= 2
       /\ Len(secs) = Cardinality(AcceptedPages)
       /\ \A i \in 1..Len(secs) :
             /\ secs[i].level = 2
             /\ secs[i].pages # <<>>
             /\ secs[i].pages[1] = Ranked(AcceptedPages, i)

(***************************************************************************)
(* C16: PdfExtractor builds its sections from the outline exactly when the *)
(* outline has a resolvable top-level chapter and _outline_is_reliable     *)
(* holds; otherwise the sections are the typographic detector's, and the   *)
(* section list never holds sections of both sources.                      *)
(***************************************************************************)
C16_PathSelection ==
    (mode = "pdf" /\ pc = "sections") =>
        LET has_chapter == ChapterEntries # <<>>
            rel == has_chapter /\ outline_is_reliable(chapters, numPages)
        IN  /\ Len(chapters) = Len(ChapterEntries)
            /\ rel => FromOutline(sections)
            /\ ~rel => FromFonts(sections)

C16_Witness ==
    /\ mode = "pdf" /\ pc = "sections"
    /\ Len(chapters) = 3
    /\ ~reliable
    /\ Len(sections) = 2
    /\ ~FromOutline(sections)
    /\ \E j \in 1..Len(outline) : outline[j].depth = 1

\* the outline position j holds a nested bookmark that _walk files under a chapter
IsFiledSub(j) ==
    /\ outline[j].depth = 1
    /\ outline[j].page # NonePage
    /\ \E c \in 1..Len(ChapterEntries) : ChapterEntries[c] < j

\* start page of the chapter under which the nested bookmark at j is filed
RootPage(j) ==
    LET before == {c \in 1..Len(ChapterEntries) : ChapterEntries[c] < j}
        last == CHOOSE c \in before : \A d \in before : d <= c
    IN  outline[ChapterEntries[last]].page

\* the nested bookmarks looked up for the k-th chapter, in outline order
SubsOf(k) ==
    SelectSeq([j \in 1..Len(outline) |-> j],
              LAMBDA j : IsFiledSub(j) /\ RootPage(j) = outline[ChapterEntries[k]].page)

SubStart(k, s) == outline[SubsOf(k)[s]].page
SubEnd(k, s) ==
    IF s < Len(SubsOf(k)) THEN outline[SubsOf(k)[s + 1]].page ELSE ChapterEnd(k)
Span(lo, hi) == IF hi > lo THEN hi - lo ELSE 0
SubWords(k, s) ==
    SumSeq([i \in 1..Span(SubStart(k, s), SubEnd(k, s)) |-> pageWords[SubStart(k, s) + i - 1]])

\* 3 pages or more, or 800 words or more, or a quarter of the chapter's pages
Substantial(k, s) ==
    LET page_count == Span(SubStart(k, s), SubEnd(k, s))
        chap_count == Span(outline[ChapterEntries[k]].page, ChapterEnd(k))
    IN  \/ page_count >= 3
        \/ SubWords(k, s) >= 800
        \/ (chap_count > 0 /\ 4 * page_count >= chap_count)

\* the sections listed after the k-th level-2 section and before the next one
SectionsUnder(secs, k) ==
    LET l2 == LevelPositions(secs, 2)
        hi == IF k < Len(l2) THEN l2[k + 1] - 1 ELSE Len(secs)
    IN  SubSeq(secs, l2[k] + 1, hi)

(***************************************************************************)
(* C17: when the sections are built from a reliable outline, every chapter *)
(* gives a level-2 section, and a subchapter gives a level-3 section right *)
(* after its chapter's exactly when it has 3 pages or more, or 800 words   *)
(* or more, or at least a quarter of its chapter's pages (never by this    *)
(* last test when the chapter has no pages).                               *)
(***************************************************************************)
C17_Substantiality ==
    (mode = "pdf" /\ pc = "sections" /\ chapters # <<>> /\ reliable) =>
        /\ Len(LevelPositions(sections, 2)) = Len(ChapterEntries)
        /\ sections[1].level = 2
        /\ \A i \in 1..Len(sections) : sections[i].level \in {2, 3}
        /\ \A k \in 1..Len(ChapterEntries) :
              LET kept == SelectSeq([s \in 1..Len(SubsOf(k)) |-> s],
                                    LAMBDA s : Substantial(k, s))
                  under == SectionsUnder(sections, k)
              IN  /\ Len(under) = Len(kept)
                  /\ \A n \in 1..Len(under) :
                        /\ under[n].level = 3
                        /\ IsPyRange(under[n].pages, SubStart(k, kept[n]), SubEnd(k, kept[n]))

C17_Witness ==
    /\ mode = "pdf" /\ pc = "sections" /\ chapters # <<>> /\ reliable
    /\ numPages = LongPages
    /\ pageWords[10] = 60
    /\ Len(sections) = 5
    /\ sections[1].level = 2 /\ Len(sections[1].pages) = 13
    /\ sections[2].level = 3 /\ sections[2].pages = <<5, 6, 7, 8, 9>>
    /\ sections[3].level = 3 /\ sections[3].pages = <<10, 11, 12>>
    /\ sections[4].level = 2 /\ sections[5].level = 2

(***************************************************************************)
(* The chapter list of EpubExtractor.__init__ on its own: a TOC of up to   *)
(* MaxChapterToc links into two resources, with and without fragments, one *)
(* of them with a non-content title.                                       *)
(***************************************************************************)
MaxChapterToc == 3

ChapterLinks ==
    {[kind |-> "link", title |-> <<"U","n","o">>, href |-> <<"a",".","x","h","t","m","l","#","s","1">>],
     [kind |-> "link", title |-> <<"D","o","s">>, href |-> <<"a",".","x","h","t","m","l","#","s","2">>],
     [kind |-> "link", title |-> <<"T","r","e","s">>, href |-> <<"b",".","x","h","t","m","l">>],
     [kind |-> "link", title |-> <<"C","u","a","t","r","o">>, href |-> <<"a",".","x","h","t","m","l">>],
     [kind |-> "link", title |-> <<"C","o","v","e","r">>, href |-> <<"a",".","x","h","t","m","l","#","s","3">>],
     [kind |-> "link", title |-> <<"C","i","n","c","o">>, href |-> <<"b",".","x","h","t","m","l","#","s","1">>]}

InitChapters ==
    /\ mode = "epub"
    /\ pc = "construct"
    /\ \E l \in SeqsUpTo(ChapterLinks, MaxChapterToc) : toc = [kind |-> "list", items |-> l]
    /\ book_items = CubiertaItems(60, 60, 60)
    /\ epub_chapters = <<>>
    /\ full_md = [set |-> FALSE, md |-> EmptyMd]
    /\ flat = <<>>
    /\ numPages = 0 /\ chapters = <<>> /\ reliable = FALSE /\ score = 0
    /\ IdlePdfDoc /\ IdlePdfExt /\ IdleGen /\ IdleDom /\ IdleBatch /\ IdleFn

NextChapters == EpubConstruct

SpecChapters == InitChapters /\ [][NextChapters]_vars

\* the TOC links that the filters retain, in TOC order without repetitions
RetainedLinks ==
    LET its == toc.items
        first == SelectSeq([i \in 1..Len(its) |-> i],
                           LAMBDA i : \A j \in 1..(i - 1) : its[j] # its[i])
    IN  SelectSeq([n \in 1..Len(first) |-> its[first[n]]],
                  LAMBDA l : /\ l.href # <<>>
                             /\ IsContentTitle(l.title)
                             /\ ~IsNoiseLocator(l.href))

\* base and fragment of a locator
BaseOf(href) ==
    IF \E i \in 1..Len(href) : href[i] = "#"
    THEN SubSeq(href, 1, (CHOOSE i \in 1..Len(href) :
                              href[i] = "#" /\ \A j \in 1..(i - 1) : href[j] # "#") - 1)
    ELSE href
FragOf(href) == SubSeq(href, Len(BaseOf(href)) + 2, Len(href))

(***************************************************************************)
(* C18: the end boundary of the retained TOC entry i is the fragment of    *)
(* the first later retained entry with the same base resource, whether it  *)
(* is entry i+1 or not; it is None when no later retained entry has that   *)
(* base or when that entry has no fragment.                                *)
(***************************************************************************)
C18_EndBoundary ==
    (mode = "epub" /\ pc = "sections") =>
        LET R == RetainedLinks IN
        /\ Len(epub_chapters) = Len(R)
        /\ \A i \in 1..Len(R) :
              /\ epub_chapters[i].base = BaseOf(R[i].href)
              /\ epub_chapters[i].frag = FragOf(R[i].href)
              /\ (\A j \in (i + 1)..Len(R) : BaseOf(R[j].href) # BaseOf(R[i].href))
                    => epub_chapters[i].nxt = <<>>
              /\ \A j \in (i + 1)..Len(R) :
                    (/\ BaseOf(R[j].href) = BaseOf(R[i].href)
                     /\ \A m \in (i + 1)..(j - 1) : BaseOf(R[m].href) # BaseOf(R[i].href))
                    => epub_chapters[i].nxt = FragOf(R[j].href)

C18_Witness ==
    /\ mode = "epub" /\ pc = "sections"
    /\ Len(epub_chapters) = 3
    /\ epub_chapters[1].base = epub_chapters[3].base
    /\ epub_chapters[1].base # epub_chapters[2].base
    /\ epub_chapters[1].nxt = <<"s","2">>
    /\ epub_chapters[2].nxt = <<>>

\* no item of the book answers to the chapter's base resource: none is named
\* by it, and the scan, which reads "" for every item, needs a base that
\* lstrip("./") leaves empty
ResourceMissing(ch) ==
    /\ \A k \in 1..Len(book_items) : book_items[k].file_name # ch.base
    /\ (book_items = <<>> \/ LStripDotSlash(ch.base) # <<>>)

\* what sections() yields from the chapter list chs
YieldedFrom(chs) ==
    LET mds == [i \in 1..Len(chs) |->
                   [title |-> chs[i].title,
                    md |-> section_md(book_items, chs[i].base, chs[i].frag, chs[i].nxt)]]
    IN  SelectSeq(mds, LAMBDA e : e.md.words >= 60)

(***************************************************************************)
(* C19: a retained EPUB entry whose base resource is not in the book       *)
(* resolves to empty content and is not yielded, and the entries yielded   *)
(* are those of the same TOC without that entry: the other entries are     *)
(* resolved and yielded as if the missing one were absent.                 *)
(***************************************************************************)
C19_MissingResource ==
    (mode = "epub" /\ pc = "done" /\ epub_chapters # <<>>) =>
        LET present == SelectSeq(epub_chapters, LAMBDA ch : ~ResourceMissing(ch))
        IN  /\ \A i \in 1..Len(epub_chapters) :
                  ResourceMissing(epub_chapters[i]) =>
                      /\ section_md(book_items, epub_chapters[i].base,
                                    epub_chapters[i].frag, epub_chapters[i].nxt) = EmptyMd
                      /\ \A k \in 1..Len(out) : out[k].title # epub_chapters[i].title
            /\ out = YieldedFrom(epub_build_chapters(present))

C19_Witness ==
    /\ mode = "epub" /\ pc = "done"
    /\ Len(epub_chapters) = 2
    /\ ResourceMissing(epub_chapters[1])
    /\ ~ResourceMissing(epub_chapters[2])
    /\ Len(out) = 1
    /\ out[1].title = epub_chapters[2].title

\* the section summaries written for document d, in the order written
ChapterBlocks(d) ==
    SelectSeq(written, LAMBDA e : e.doc = d /\ e.block = "chapter" /\ e.idx > 0)

(***************************************************************************)
(* C20 (as stated): the documents of a batch are processed one after       *)
(* another, and for each document all section content is resolved before   *)
(* the first summarization call for that document begins.                  *)
(***************************************************************************)
C20_Original ==
    (mode = "batch" /\ pc = "run" /\ pending /\ ChapterBlocks(fi) = <<>>) =>
        sec_idx = files[fi].nsec

(***************************************************************************)
(* C20 (amended): the documents of a batch are processed one after another *)
(* (while document k is being processed every earlier document's run has   *)
(* finished with all its sections summarized, and nothing of a later       *)
(* document has been written); for each document the extractor is          *)
(* constructed before its first summarization call, and the content of     *)
(* each section is resolved before that section's summarization call.      *)
(***************************************************************************)
C20_Sequential ==
    mode = "batch" =>
        /\ pc \in {"loop", "run", "crashed"} => \A j \in 1..(fi - 1) : j \in finished
        /\ \A j \in finished : Len(ChapterBlocks(j)) = files[j].nsec
        /\ \A a, b \in 1..Len(written) : a < b => written[a].doc <= written[b].doc
        /\ \A a \in 1..Len(written) :
              \/ written[a].doc \in finished
              \/ written[a].doc = fi /\ pc = "run"
        /\ pc = "run" =>
              /\ Len(ChapterBlocks(fi)) = (IF pending THEN sec_idx - 1 ELSE sec_idx)
              /\ \A n \in 1..Len(ChapterBlocks(fi)) : ChapterBlocks(fi)[n].idx = n

C20_Witness ==
    /\ mode = "batch" /\ pc = "run"
    /\ fi = 2
    /\ 1 \in finished
    /\ Len(ChapterBlocks(1)) = 2
    /\ Len(ChapterBlocks(2)) = 1
    /\ pending
    /\ sec_idx = 2

(***************************************************************************)
(* C21: in the reliable-outline path the pages of chapter i are exactly    *)
(* the pages from its start page up to, not including, the start page of   *)
(* the next chapter in outline order (the page count for the last one):    *)
(* no page at or after the next chapter's start is among them.             *)
(***************************************************************************)
C21_ChapterPages ==
    (mode = "pdf" /\ pc = "sections" /\ chapters # <<>> /\ reliable) =>
        LET l2 == LevelPositions(sections, 2) IN
        /\ Len(l2) = Len(ChapterEntries)
        /\ \A k \in 1..Len(ChapterEntries) :
              LET pages == sections[l2[k]].pages
                  start == outline[ChapterEntries[k]].page
                  stop == ChapterEnd(k)
              IN  /\ \A n \in 1..Len(pages) : pages[n] >= start /\ pages[n] < stop
                  /\ \A q \in 0..(numPages - 1) :
                        (q >= start /\ q < stop) =>
                            Cardinality({n \in 1..Len(pages) : pages[n] = q}) = 1
                  /\ \A n \in 1..(Len(pages) - 1) : pages[n] < pages[n + 1]

C21_Witness ==
    /\ mode = "pdf" /\ pc = "sections" /\ chapters # <<>> /\ reliable
    /\ Len(sections) = 3
    /\ Len(sections[1].pages) = 2
    /\ sections[2].pages = <<>>
    /\ chapters[2].page > chapters[3].page
    /\ Len(sections[3].pages) >= 3

\* the outline position of the top-level bookmark that the nested bookmark at
\* position j hangs from: the nearest top-level bookmark before it (0 when none)
ParentOf(j) ==
    LET tops == {i \in 1..(j - 1) : outline[i].depth = 0}
    IN  IF tops = {} THEN 0 ELSE CHOOSE i \in tops : \A k \in tops : k <= i

(***************************************************************************)
(* C22 (as stated): every depth-1 outline entry that _walk records in      *)
(* _sub_map is recorded under the start page of its own parent depth-0     *)
(* entry, also when the parent's page cannot be resolved and the parent    *)
(* is skipped.                                                             *)
(***************************************************************************)
C22_SubAttribution ==
    (mode = "pdf" /\ pc # "construct") =>
        \A p \in DOMAIN sub_map :
            \A n \in 1..Len(sub_map[p]) :
                \E j \in 1..Len(outline) :
                    /\ outline[j].depth = 1
                    /\ outline[j].title = sub_map[p][n].title
                    /\ outline[j].page = sub_map[p][n].page
                    /\ ParentOf(j) # 0
                    /\ outline[ParentOf(j)].page = p

(***************************************************************************)
(* utils.chunk_text.  The text is given as the pieces that the split on    *)
(* blank lines produces, each by the number of characters left after       *)
(* strip() (0 for a piece of white space only); a paragraph is a record    *)
(* [idx, len]: its position among the non-empty paragraphs and its length. *)
(***************************************************************************)
MaxPieces == 4

\* approx_token_count(text) = max(1, len(text) // 4)
approx_token_count(para) == IF para.len \div 4 >= 1 THEN para.len \div 4 ELSE 1

\* paragraphs = [p.strip() for p in re.split(...) if p.strip()]
chunk_paragraphs(pieces) ==
    LET kept == SelectSeq(pieces, LAMBDA n : n > 0)
    IN  [i \in 1..Len(kept) |-> [idx |-> i, len |-> kept[i]]]

\* sum(approx_token_count(x) for x in cur)
RECURSIVE chunk_tokens(_)
chunk_tokens(cur) ==
    IF cur = <<>> THEN 0 ELSE approx_token_count(Head(cur)) + chunk_tokens(Tail(cur))

\* faulty variant: the token test comes before a paragraph is taken, so that
\* nothing is carried over when overlap_tokens is 0
RECURSIVE chunk_overlap_test_first(_, _, _, _)
chunk_overlap_test_first(cur, k, toks, overlap_tokens) ==
    IF k = 0 \/ toks >= overlap_tokens THEN <<>>
    ELSE <<cur[k]>> \o chunk_overlap_test_first(cur, k - 1,
                                                toks + approx_token_count(cur[k]),
                                                overlap_tokens)

\* the overlap loop over reversed(cur): ov in the order the loop appends
RECURSIVE chunk_overlap(_, _, _, _)
chunk_overlap(cur, k, toks, overlap_tokens) ==
    IF k = 0 THEN <<>>
    ELSE LET toks2 == toks + approx_token_count(cur[k])
         IN  IF toks2 >= overlap_tokens THEN <<cur[k]>>
             ELSE <<cur[k]>> \o chunk_overlap(cur, k - 1, toks2, overlap_tokens)

\* list(reversed(ov))
Reversed(s) == [i \in 1..Len(s) |-> s[Len(s) + 1 - i]]

\* the loop over paragraphs, from paragraph i on, and the final flush
RECURSIVE chunk_loop(_, _, _, _, _, _, _)
chunk_loop(paragraphs, i, chunks, cur, cur_toks, max_tokens, overlap_tokens) ==
    IF i > Len(paragraphs)
    THEN (IF cur # <<>> THEN Append(chunks, cur) ELSE chunks)
    ELSE LET para == paragraphs[i]
             t == approx_token_count(para)
         IN  IF cur_toks + t > max_tokens /\ cur # <<>>
             THEN LET cur2 == Reversed(chunk_overlap(cur, Len(cur), 0, overlap_tokens))
                  IN  chunk_loop(paragraphs, i + 1, Append(chunks, cur),
                                 Append(cur2, para), chunk_tokens(cur2) + t,
                                 max_tokens, overlap_tokens)
             ELSE chunk_loop(paragraphs, i + 1, chunks, Append(cur, para), cur_toks + t,
                             max_tokens, overlap_tokens)

\* chunk_text(md, max_tokens, overlap_tokens): each chunk as its list of paragraphs
chunk_text(pieces, max_tokens, overlap_tokens) ==
    chunk_loop(chunk_paragraphs(pieces), 1, <<>>, <<>>, 0, max_tokens, overlap_tokens)

PieceLengths == {0, 3, 8, 24}
ChunkMaxTokens == {1, 4, 8}
ChunkOverlaps == {0, 2, 300}

InitChunk ==
    /\ mode = "chunk_text"
    /\ pc = "call"
    /\ arg \in [pieces : SeqsUpTo(PieceLengths, MaxPieces),
                max_tokens : ChunkMaxTokens, overlap_tokens : ChunkOverlaps]
    /\ ret = <<>>
    /\ numPages = 0 /\ chapters = <<>> /\ reliable = FALSE /\ score = 0
    /\ IdlePdfDoc /\ IdlePdfExt /\ IdleGen /\ IdleToc /\ IdleDom /\ IdleEpub /\ IdleBatch

\* chunk_text(md, max_tokens, overlap_tokens)
ChunkText ==
    /\ mode = "chunk_text"
    /\ pc = "call"
    /\ ret' = chunk_text(arg.pieces, arg.max_tokens, arg.overlap_tokens)
    /\ pc' = "returned"
    /\ UNCHANGED <<mode, arg, pdfDoc, pdfExt, genVars, tocVars, domVars, epubVars, batchVars>>

NextChunk == ChunkText

SpecChunk == InitChunk /\ [][NextChunk]_vars

\* approximate token count of a chunk: its paragraphs' counts added up
ChunkSize(chunk) ==
    SumSeq([n \in 1..Len(chunk) |->
               IF chunk[n].len \div 4 >= 1 THEN chunk[n].len \div 4 ELSE 1])

(***************************************************************************)
(* C23 (as stated): every chunk that chunk_text returns and that is made   *)
(* of more than one paragraph has an approximate token count of at most    *)
(* max_tokens, the overlap paragraphs carried from the previous chunk      *)
(* included.                                                               *)
(***************************************************************************)
C23_ChunkSizeBound ==
    (mode = "chunk_text" /\ pc = "returned") =>
        \A k \in 1..Len(ret) :
            Len(ret[k]) > 1 => ChunkSize(ret[k]) <= arg.max_tokens

(***************************************************************************)
(* epub_resumidor.flatten_toc, the original script's function: the own     *)
(* Link of a (node, children) tuple is emitted, and duplicates are removed *)
(* at the end on the stripped (title, href) pairs, which are returned.     *)
(***************************************************************************)
\* walk(items): every Link, and the own Link of every tuple, in document order
RECURSIVE original_walk(_)
original_walk(its) ==
    IF its = <<>> THEN <<>>
    ELSE LET it == Head(its)
             own == IF it.kind = "link" THEN <<toc_item(it)>>
                    ELSE IF it.kind = "tuple"
                         THEN (IF it.node.kind = "link" THEN <<toc_item(it.node)>> ELSE <<>>)
                                  \o original_walk(it.children)
                         ELSE <<>>
         IN  own \o original_walk(Tail(its))

\* the final loop: key = (t.strip(), h.strip()), kept on its first occurrence
RECURSIVE original_filter(_, _)
original_filter(pairs, filtered) ==
    IF pairs = <<>> THEN filtered
    ELSE LET key == <<Strip(Head(pairs)[1]), Strip(Head(pairs)[2])>>
         IN  original_filter(Tail(pairs),
                             IF key \in Range(filtered) THEN filtered
                             ELSE Append(filtered, key))

flatten_toc_original(its) == original_filter(original_walk(its), <<>>)

(***************************************************************************)
(* C24 (as stated): for every TOC forest utils.flatten_toc returns the     *)
(* same sequence of (title, href) pairs as the original script's           *)
(* flatten_toc.                                                            *)
(***************************************************************************)
C24_SameAsOriginal ==
    (mode = "toc" /\ pc = "returned" /\ toc.kind = "list") =>
        flat = flatten_toc_original(toc.items)

\* the positions in written of the blocks of kind blk of document d
BlockPositions(d, blk) ==
    {a \in 1..Len(written) : written[a].doc = d /\ written[a].block = blk}

(***************************************************************************)
(* C25: for one document, Summarizer.run appends exactly one summary block *)
(* per section yielded by the extractor, in the order yielded, and the     *)
(* general summary is made at most once, after the last section's block,   *)
(* and only when at least one section was processed.                       *)
(***************************************************************************)
C25_RunOrdering ==
    mode = "batch" =>
        \A d \in 1..Len(files) :
            LET chap == BlockPositions(d, "chapter")
                gen == BlockPositions(d, "general")
            IN  /\ Cardinality(gen) <= 1
                /\ gen # {} => (d \in finished /\ files[d].nsec >= 1)
                /\ \A g \in gen : \A c \in chap : c < g
                /\ \A c \in chap : written[c].idx = Cardinality({b \in chap : b <= c})
                /\ Cardinality(chap) <= files[d].nsec
                /\ d \in finished =>
                      /\ Cardinality(chap) = files[d].nsec
                      /\ (files[d].nsec >= 1 => Cardinality(gen) = 1)

C25_Witness ==
    /\ mode = "batch" /\ pc = "exit"
    /\ Len(files) = 2
    /\ files[1].nsec = 0 /\ files[2].nsec = 2
    /\ finished = {1, 2}
    /\ Len(written) = 3
    /\ written[3].block = "general"

(***************************************************************************)
(* C26 (as stated): when sections() yields no section and the extractor    *)
(* holds whole-book text that is not empty, Summarizer.run summarizes that *)
(* text once under "Libro completo" (the chapter block of index 0),        *)
(* appends it and then makes the general summary, for an EpubExtractor and *)
(* for a PdfExtractor alike.                                               *)
(***************************************************************************)
C26_SummarizerFallback ==
    mode = "batch" =>
        \A d \in finished :
            (files[d].nsec = 0 /\ files[d].has_text) =>
                /\ \E a \in BlockPositions(d, "chapter") : written[a].idx = 0
                /\ Cardinality(BlockPositions(d, "chapter")) = 1
                /\ Cardinality(BlockPositions(d, "general")) = 1

\* the number of pieces of the input that are not empty
NonEmptyPieces == Cardinality({i \in 1..Len(arg.pieces) : arg.pieces[i] > 0})

\* the lengths of the non-empty pieces, in input order
PieceLens == SelectSeq(arg.pieces, LAMBDA n : n > 0)

(***************************************************************************)
(* C27: every non-empty paragraph of the text is in at least one chunk     *)
(* that chunk_text returns; paragraphs keep their order inside a chunk     *)
(* and from chunk to chunk; the first paragraph of chunk k+1 occurs in     *)
(* chunk k; a text with a non-empty paragraph gives at least one chunk.    *)
(***************************************************************************)
C27_ChunkCoverage ==
    (mode = "chunk_text" /\ pc = "returned") =>
        /\ \A i \in 1..NonEmptyPieces :
              \E k \in 1..Len(ret) : \E m \in 1..Len(ret[k]) :
                  ret[k][m].idx = i /\ ret[k][m].len = PieceLens[i]
        /\ \A k \in 1..Len(ret) :
              /\ ret[k] # <<>>
              /\ \A m \in 1..Len(ret[k]) : ret[k][m].idx \in 1..NonEmptyPieces
              /\ \A m \in 1..(Len(ret[k]) - 1) : ret[k][m].idx < ret[k][m + 1].idx
        /\ \A k \in 1..(Len(ret) - 1) :
              /\ ret[k][1].idx <= ret[k + 1][1].idx
              /\ ret[k][Len(ret[k])].idx < ret[k + 1][Len(ret[k + 1])].idx
              /\ \E m \in 1..Len(ret[k]) : ret[k][m] = ret[k + 1][1]
        /\ NonEmptyPieces >= 1 => Len(ret) >= 1

C27_Witness ==
    /\ mode = "chunk_text" /\ pc = "returned"
    /\ Len(arg.pieces) = 4
    /\ NonEmptyPieces = 3
    /\ arg.overlap_tokens = 0
    /\ Len(ret) = 2
    /\ Len(ret[1]) = 2
    /\ Len(ret[2]) = 2

(***************************************************************************)
(* _outline_is_reliable on chapter lists that pass the entry-count gate    *)
(* and whose pages all lie inside the document: 3 to MaxScoreChapters      *)
(* chapters on pages 0, 1, 3, 4 or 6 of a document of 5 or 7 pages, each   *)
(* titled "Capítulo 1", "Intro" or "Index".                                *)
(***************************************************************************)
MaxScoreChapters == 3

ScoreTitles == {TCapitulo1, TIntro, TIndex}
ScoreTotals == {5, 7}
ScorePages == {0, 1, 3, 4, 6}

InitScore ==
    /\ mode = "reliable"
    /\ pc = "call"
    /\ reliable = FALSE
    /\ score = 0
    /\ IdlePdfDoc /\ IdlePdfExt /\ IdleGen /\ IdleToc /\ IdleDom /\ IdleEpub /\ IdleBatch /\ IdleFn
    /\ numPages \in ScoreTotals
    /\ \E n \in 3..MaxScoreChapters :
          chapters \in [1..n -> [title : ScoreTitles, page : {p \in ScorePages : p < numPages}]]

NextScore == CheckOutline

SpecScore == InitScore /\ [][NextScore]_vars

(***************************************************************************)
(* C28: for a chapter list of 3 entries or more whose pages lie in         *)
(* [0, total pages), coverage >= 0.6 and min_distance >= 3 never hold      *)
(* together; the score never reaches 5, and the outline is reliable        *)
(* exactly when diversity, keywords_ok and numeric_ratio hold together     *)
(* with exactly one of coverage and min_distance.                          *)
(***************************************************************************)
C28_CoverageDistance ==
    (/\ RelReturned
     /\ Len(chapters) >= 3
     /\ \A i \in 1..Len(chapters) : chapters[i].page >= 0 /\ chapters[i].page < numPages) =>
        LET sig == C5_Signals IN
        /\ ~(sig[1] /\ sig[5])
        /\ score <= 4
        /\ reliable <=> (sig[2] /\ sig[3] /\ sig[4] /\ (sig[1] # sig[5]))

C28_Witness ==
    /\ RelReturned
    /\ Len(chapters) = 3
    /\ numPages = 7
    /\ chapters[1].page = 0 /\ chapters[2].page = 3 /\ chapters[3].page = 6
    /\ reliable
    /\ score = 4

(***************************************************************************)
(* C29 (as stated): in the reliable-outline path every depth-1 outline     *)
(* entry under a resolvable chapter gives at most one level-3 section, and *)
(* that section is listed after its own chapter's level-2 section and      *)
(* before the next chapter's, also when two chapters start on one page.    *)
(***************************************************************************)
C29_SubOncePerEntry ==
    (mode = "pdf" /\ pc = "sections" /\ chapters # <<>> /\ reliable) =>
        \A j \in 1..Len(outline) :
            (/\ outline[j].depth = 1
             /\ ParentOf(j) # 0
             /\ outline[ParentOf(j)].page # NonePage) =>
                LET from == {i \in 1..Len(sections) :
                                /\ sections[i].level = 3
                                /\ sections[i].title = clean_title(outline[j].title)}
                    k == CHOOSE c \in 1..Len(ChapterEntries) : ChapterEntries[c] = ParentOf(j)
                    l2 == LevelPositions(sections, 2)
                IN  /\ Cardinality(from) <= 1
                    /\ \A i \in from :
                          /\ l2[k] < i
                          /\ k < Len(l2) => i < l2[k + 1]

\* the string that _fallback_full_text returns has at least one character: the
\* pages' texts joined by "\n" (a page without words gives "")
FallbackTextNonEmpty == Len(full_text.pages) >= 2 \/ full_text.words > 0

\* at least one character is left after strip()
FallbackTextNonBlank == full_text.words > 0

\* the positions of out that hold the whole-document entry
FallbackEntries == {i \in 1..Len(out) : out[i].title = LibroCompleto}

\* a section of the candidate list was yielded
RegularYielded == \E i \in 1..Len(out) : out[i].title # LibroCompleto

\* the run is over and its last item is the whole-document entry, at level 2
EndsWithFallback ==
    /\ pc = "done"
    /\ out # <<>>
    /\ out[Len(out)].title = LibroCompleto
    /\ out[Len(out)].level = 2

(***************************************************************************)
(* C30 (as stated): in a run of ExtractorBase.sections the whole-document  *)
(* entry is yielded at most once, only as the last item and never together *)
(* with a regular section; a finished run without regular section whose    *)
(* fallback text is non-empty plain text ends with that entry at level 2.  *)
(***************************************************************************)
C30_Original ==
    mode = "pdf" =>
        /\ Cardinality(FallbackEntries) <= 1
        /\ \A i \in FallbackEntries : i = Len(out) /\ pc = "done"
        /\ ~(RegularYielded /\ FallbackEntries # {})
        /\ (pc = "done" /\ ~RegularYielded /\ FallbackTextNonEmpty /\ ~LooksLikeHtml(full_text))
               => EndsWithFallback

(***************************************************************************)
(* C30 (amended): the same, for a finished run without regular section     *)
(* whose fallback text is plain text that is not empty once strip() has    *)
(* removed the white space around it.                                      *)
(***************************************************************************)
C30_FallbackOnceLast ==
    mode = "pdf" =>
        /\ Cardinality(FallbackEntries) <= 1
        /\ \A i \in FallbackEntries : i = Len(out) /\ pc = "done"
        /\ ~(RegularYielded /\ FallbackEntries # {})
        /\ (pc = "done" /\ ~RegularYielded /\ FallbackTextNonBlank /\ ~LooksLikeHtml(full_text))
               => EndsWithFallback

C30_Witness ==
    /\ mode = "pdf" /\ pc = "done"
    /\ Len(sections) >= 2
    /\ ~yielded
    /\ textKind = "plain"
    /\ full_text.words > 0
    /\ Len(out) = 1
    /\ EndsWithFallback

====
